---- MODULE Spec2Model ----
(***************************************************************************)
(* State-machine model of packages/realm/src/Realm.ts: one Realm handle,   *)
(* its transaction controller (begin / commit / cancel / write), the       *)
(* object lifecycle operations (create / delete / deleteModel / deleteAll), *)
(* the reads (objectForPrimaryKey / objects), _updateSchema and the        *)
(* operations guarded by the transaction state (compact, writeCopyTo).     *)
(* The storage engine behind `this.internal` and the helpers imported      *)
(* from "./internal" are modelled at their interface.                      *)
(***************************************************************************)
EXTENDS Integers, Sequences, FiniteSets, TLC

\* ---------------------------------------------------------------- bounds
\* number of object keys the engine hands out in one behaviour (Spec,
\* SpecCreate, SpecSchema)
MaxKey == 1
\* depth of write() calls whose callbacks are running at the same time
MaxDepth == 1
\* longest array handed to delete()
MaxSeq == 2
\* number of object keys in the behaviours that study rows (SpecData)
MaxRows == 2
\* highest schema version a behaviour reaches
MaxVersion == 2
\* number of handles the process opens besides the one the model follows
MaxHandles == 2
\* number of polls of the services endpoint that are counted
MaxPolls == 3
\* number of calls of importApp made on the importer
MaxCalls == 2

\* ------------------------------------------------------------ vocabulary
Classes == {"Dog", "Cat"}
PKs == {1, 2}
Vals == {0, 1}
DefaultVal == 0
NoVal == -1
Keys == 1..MaxRows

\* error kinds of the layer (spec section 7) and the failure a callback raises
NoError == "none"
E == "E"
IllegalStateError == "IllegalStateError"
InvalidatedObjectError == "InvalidatedObjectError"
InvalidArgumentError == "InvalidArgumentError"
NotImplementedError == "NotImplementedError"
ClassNotFoundError == "ClassNotFoundError"
ConfigurationError == "ConfigurationError"
DuplicateKeyError == "DuplicateKeyError"
KeyNotFoundError == "KeyNotFoundError"
DetachedObjectError == "DetachedObjectError"
NoSuchTableError == "NoSuchTableError"
SchemaMismatchError == "SchemaMismatchError"
SchemaValidationError == "SchemaValidationError"
UnsupportedOperationError == "UnsupportedOperationError"

\* values a write() callback returns
Results == {"v1", "v2"}
NoResult == "undefined"

\* the schema the handle is opened with:
\*   Dog { id: int (primary key), age: { type int, default 0 } }
\*   Cat { }  (no primary key, no property that is modelled)
HasPrimaryKey(c) == c = "Dog"
HasAge(c) == c = "Dog"
NoPk == 0
\* a class name no schema declares
Ghost == "Ghost"
TypeNames == Classes \cup {Ghost}

\* binding.TableType of a class. The classes above are top-level; a schema
\* that is queried also declares an embedded class and an asymmetric class:
\*   Bone { } embedded,  Log { } asymmetric
TopLevel == "TopLevel"
Embedded == "Embedded"
TopLevelAsymmetric == "TopLevelAsymmetric"
EmbeddedClass == "Bone"
AsymmetricClass == "Log"
TableType(c) ==
  IF c = EmbeddedClass THEN Embedded
  ELSE IF c = AsymmetricClass THEN TopLevelAsymmetric
  ELSE TopLevel
AllClasses == Classes \cup {EmbeddedClass, AsymmetricClass}
QueryNames == AllClasses \cup {Ghost}

Rows == [key : Keys, pk : PKs \cup {NoPk}, val : Vals]
EmptyTables == [c \in Classes |-> {}]
\* typed objects handed to the application: class name and object key
Wrappers == [class : Classes, key : Keys]

\* ------------------------------------------------ process-wide vocabulary
\* handle ids: Self is the handle the model follows, the others are handles
\* the process opens besides it
Self == 0
OtherHandles == 1..MaxHandles
\* a handle id that is not in use, a handle that is open or closed, and a
\* handle the runtime has collected (its WeakRef no longer resolves)
Unused == "unused"
Open == "open"
Closed == "closed"
Collected == "collected"

\* A file name is the sequence of its dot-separated segments ("a.realm.lock"
\* is <<"a", "realm", "lock">>); a path is the sequence of its components,
\* an absolute path starts with the root component; "" is the empty sequence.
Root == <<"/">>
EmptyPath == <<>>
DefaultFileName == <<"default", "realm">>
DefaultDirectoryPath == <<Root, <<"home">>>>
RelativePath == <<<<"a", "realm">>>>
NestedPath == <<<<"sub">>, <<"a", "realm">>>>
AbsolutePath == <<Root, <<"data">>, <<"b", "realm">>>>
Paths == {EmptyPath, RelativePath, NestedPath, AbsolutePath}

\* the entries fs.readDirectory returns: a name and dirent.isDirectory()
File(name) == [name |-> name, isDirectory |-> FALSE]
Directory(name) == [name |-> name, isDirectory |-> TRUE]
\* entries that belong to databases of the default directory
DatabaseEntries ==
  {File(<<"c", "realm">>), File(<<"c", "realm", "note">>),
   File(<<"c", "realm", "lock">>), File(<<"c", "realm", "log">>),
   Directory(<<"c", "realm", "management">>), File(<<"", "realm">>)}
\* entries that belong to something else
OtherEntries ==
  {File(<<"notes", "txt">>), File(<<"realm">>), File(<<"c", "realm", "bak">>),
   File(<<"realm", "lock">>), Directory(<<"management">>),
   Directory(<<"d", "management">>), File(<<"e", "realm", "management">>)}
InitDirectories == {{}, OtherEntries, DatabaseEntries \cup OtherEntries}

\* ------------------------------------------------- app importer vocabulary
\* The calls of importApp made on the one AppImporter are numbered
\* 1..MaxCalls; a later call may be made while an earlier one is pending.
\* A promise is "none" (not created), "pending", "resolved" or "rejected".
\* Where a call stands (field `at`): "not started", "logging in" (awaiting the
\* login request), "getting profile" (awaiting the profile request),
\* "creating" (awaiting the request that creates the app), "timer armed" (the
\* 1-second timer), "polling" (awaiting the services request), "patching"
\* (awaiting the request that patches the service), "stopped" (nothing
\* scheduled any more).
\* What the services request ends with: "fails" (the fetch fails or the body
\* is not JSON), or a JSON body: "null", "[]" (the empty list), "{error}" (a
\* value without a length, or with a length that is falsy), "[service]" (a
\* non-empty list of services), "text" (a non-empty string), "[null]" (a
\* value with a truthy length whose element 0 is null or undefined)
ServicesResponses == {"fails", "null", "[]", "{error}", "[service]", "text", "[null]"}
\* `services.length`: reading it throws, or it is falsy, or it is truthy
Length(services) ==
  IF services = "null" THEN "throws"
  ELSE IF services \in {"[]", "{error}"} THEN "falsy"
  ELSE "truthy"
\* `services[0]._id` throws when element 0 is null or undefined
FirstIdThrows(services) == services = "[null]"
\* a call before importApp is made: no promise, no app data, and `services`
\* not yet assigned by a poll
NoCall ==
  [at |-> "not started", createApp |-> "none", importApp |-> "none",
   data |-> "none", polls |-> 0, services |-> "no response"]
\* the importer after construction: no access token, no call made
NoImporter == [accessToken |-> FALSE, calls |-> [c \in 1..MaxCalls |-> NoCall]]

\* the update modes of UpdateMode and what callers pass for `mode`
UpdateMode == {"never", "modified", "all"}
ModeArgs == UpdateMode \cup {"true", "false", "undefined", "bogus"}

VARIABLES
  internal,   \* this.internal: the binding's Realm (live view of the handle)
  committed,  \* the data made durable by the last commit
  classes,    \* this.classes: class names the Class Map resolves
  wrappers,   \* typed objects the application holds (returned by create)
  stack,      \* write() calls whose callback is running, innermost last
  last,       \* outcome of the most recent call on the handle
  active,     \* calls that began a transaction minus calls that ended one
  supply,     \* number of object keys the engine hands out in this behaviour
  registry,   \* RETURNED_REALMS: the handles the process holds weak references to
  handles,    \* the other handles the process has opened, by handle id
  directory,  \* the entries of the default directory
  resolved,   \* the path the most recent call resolved
  importer    \* the AppImporter of the test harness: its access token and its calls

\* the state of the process outside this handle
process == <<registry, handles, directory, resolved, importer>>

vars == <<internal, committed, classes, wrappers, stack, last, active, supply,
          registry, handles, directory, resolved, importer>>

\* the part of the handle that a transaction commits or rolls back
Data(h) == [schema |-> h.schema, schemaVersion |-> h.schemaVersion, tables |-> h.tables]

\* Realm.isInTransaction / Realm.isClosed
isInTransaction == internal.isInTransaction
isClosed == internal.isClosed

\* next object key the engine hands out
nextKey == Cardinality(wrappers) + 1

\* what a call did: failure raised (or none), engine calls made in order,
\* value returned, whether it ended a transaction that held pending writes,
\* and the rows behind the typed objects it returned
Outcome(op, err, eng, val) ==
  [op |-> op, err |-> err, eng |-> eng, val |-> val, dirty |-> FALSE, rows |-> {}]
Ended(op, err, eng, val, dirty) ==
  [op |-> op, err |-> err, eng |-> eng, val |-> val, dirty |-> dirty, rows |-> {}]
Found(op, err, eng, val, rows) ==
  [op |-> op, err |-> err, eng |-> eng, val |-> val, dirty |-> FALSE, rows |-> rows]
\* values a read returns: a typed object, a Results collection
AnObject == "object"
SomeResults == "results"
\* the transaction that is active holds pending writes
Pending == internal.isInTransaction /\ Data(internal) /= committed

\* --------------------------------------------------------------- engine
\* binding.Realm.beginTransaction: Idle -> InTransaction, fails otherwise
EngineBeginError(h) == IF h.isClosed \/ h.isInTransaction THEN IllegalStateError ELSE NoError
EngineBegin(h) == [h EXCEPT !.isInTransaction = TRUE]

\* binding.Realm.commitTransaction: InTransaction -> Idle, persists pending writes
EngineCommitError(h) == IF h.isClosed \/ ~h.isInTransaction THEN IllegalStateError ELSE NoError
EngineCommit(h) == [h EXCEPT !.isInTransaction = FALSE]

\* binding.Realm.cancelTransaction: InTransaction -> Idle, discards pending writes
EngineCancelError(h) == IF h.isClosed \/ ~h.isInTransaction THEN IllegalStateError ELSE NoError
EngineCancel(h, c) ==
  [h EXCEPT !.isInTransaction = FALSE, !.schema = c.schema,
            !.schemaVersion = c.schemaVersion, !.tables = c.tables]

\* binding.Realm.close: rolls an active transaction back and closes the handle
EngineClose(h, c) == [EngineCancel(h, c) EXCEPT !.isClosed = TRUE]

\* binding.Helpers.getTable / Table.removeObject / Table.clear / Obj.isValid
HasTable(h, c) == c \in h.schema
RowsWithKey(h, c, k) == {r \in h.tables[c] : r.key = k}
RowsWithPk(h, c, p) == {r \in h.tables[c] : r.pk = p}
RemoveObject(h, c, k) == [h EXCEPT !.tables[c] = @ \ RowsWithKey(h, c, k)]
ClearTable(h, c) == [h EXCEPT !.tables[c] = {}]
ObjIsValid(h, obj) ==
  ~h.isClosed /\ HasTable(h, obj.class) /\ RowsWithKey(h, obj.class, obj.key) /= {}

\* binding.Helpers.deleteDataForObject: drops the table of class `name`
DeleteDataError(h, name) == IF name \in h.schema THEN NoError ELSE NoSuchTableError
DeleteDataForObject(h, name) ==
  IF name \in DOMAIN h.tables THEN [h EXCEPT !.tables[name] = {}] ELSE h

\* binding.Realm.updateSchema(schema, version, null, null, true)
UpdateSchema(h, schema, version) ==
  [h EXCEPT !.schema = schema, !.schemaVersion = version,
            !.tables = [c \in DOMAIN h.tables |-> IF c \in schema THEN @[c] ELSE {}]]

\* ---------------------------------------------------------------- assert
\* assert.inTransaction / assert.outTransaction / assert.isValid / assert.object
AssertInTransaction(h) == IF h.isInTransaction THEN NoError ELSE IllegalStateError
AssertOutTransaction(h) == IF h.isInTransaction THEN IllegalStateError ELSE NoError
AssertIsValid(h, obj) == IF ObjIsValid(h, obj) THEN NoError ELSE InvalidatedObjectError
AssertObject(subject) == IF subject.kind = "number" THEN InvalidArgumentError ELSE NoError

\* ClassMap.getHelpers
GetHelpersError(cm, type) == IF type \in cm THEN NoError ELSE ClassNotFoundError

\* ----------------------------------------------------------- write stack
InCallback == stack /= <<>>
Top == stack[Len(stack)]
\* own: the transaction begun by this write() is still the active one
Frame == [own |-> TRUE]
\* the callback on top of the stack has ended the transaction its write() began
Disown(s) == IF s = <<>> THEN s ELSE [s EXCEPT ![Len(s)].own = FALSE]

\* the process after constructing the handle: the constructor has registered
\* it, no other handle is open, the default directory is empty
ProcessInit ==
  /\ registry = {Self}
  /\ handles = [i \in OtherHandles |-> Unused]
  /\ directory = {}
  /\ resolved = EmptyPath
  /\ importer = NoImporter

Init ==
  /\ internal = [isInTransaction |-> FALSE, isClosed |-> FALSE,
                 schema |-> Classes, schemaVersion |-> 0, tables |-> EmptyTables]
  /\ committed = [schema |-> Classes, schemaVersion |-> 0, tables |-> EmptyTables]
  /\ classes = Classes
  /\ wrappers = {}
  /\ stack = <<>>
  /\ last = Outcome("open", NoError, <<>>, NoResult)
  /\ active = 0
  /\ supply = MaxKey
  /\ ProcessInit

\* the failure a running callback raises
Raisable == {E}

\* ------------------------------------------------- transaction controller
\* beginTransaction with the engine's failure caught and dropped
beginTransaction_swallow ==
  LET err == EngineBeginError(internal) IN
  /\ internal' = IF err = NoError THEN EngineBegin(internal) ELSE internal
  /\ last' = Outcome("beginTransaction", NoError, <<"beginTransaction">>, NoResult)
  /\ UNCHANGED <<supply, process, committed, classes, wrappers, stack>>
  /\ active' = active + 1

\* Realm.beginTransaction
beginTransaction ==
  LET err == EngineBeginError(internal) IN
  /\ internal' = IF err = NoError THEN EngineBegin(internal) ELSE internal
  /\ last' = Outcome("beginTransaction", err, <<"beginTransaction">>, NoResult)
  /\ UNCHANGED <<supply, process, committed, classes, wrappers, stack>>
  /\ active' = IF err = NoError THEN active + 1 ELSE active

\* commitTransaction with the engine's failure caught and dropped
commitTransaction_swallow ==
  LET err == EngineCommitError(internal) IN
  /\ internal' = IF err = NoError THEN EngineCommit(internal) ELSE internal
  /\ committed' = IF err = NoError THEN Data(internal) ELSE committed
  /\ stack' = IF err = NoError THEN Disown(stack) ELSE stack
  /\ last' = Ended("commitTransaction", NoError, <<"commitTransaction">>, NoResult, Pending)
  /\ UNCHANGED <<supply, process, classes, wrappers>>
  /\ active' = active - 1

\* Realm.commitTransaction
commitTransaction ==
  LET err == EngineCommitError(internal) IN
  /\ internal' = IF err = NoError THEN EngineCommit(internal) ELSE internal
  /\ committed' = IF err = NoError THEN Data(internal) ELSE committed
  /\ stack' = IF err = NoError THEN Disown(stack) ELSE stack
  /\ last' = Ended("commitTransaction", err, <<"commitTransaction">>, NoResult, Pending)
  /\ UNCHANGED <<supply, process, classes, wrappers>>
  /\ active' = IF err = NoError THEN active - 1 ELSE active

\* cancelTransaction with the engine's failure caught and dropped
cancelTransaction_swallow ==
  LET err == EngineCancelError(internal) IN
  /\ internal' = IF err = NoError THEN EngineCancel(internal, committed) ELSE internal
  /\ stack' = IF err = NoError THEN Disown(stack) ELSE stack
  /\ last' = Ended("cancelTransaction", NoError, <<"cancelTransaction">>, NoResult, Pending)
  /\ UNCHANGED <<supply, process, committed, classes, wrappers>>
  /\ active' = active - 1

\* cancelTransaction that calls the engine's commitTransaction
cancelTransaction_commits ==
  LET err == EngineCommitError(internal) IN
  /\ internal' = IF err = NoError THEN EngineCommit(internal) ELSE internal
  /\ committed' = IF err = NoError THEN Data(internal) ELSE committed
  /\ stack' = IF err = NoError THEN Disown(stack) ELSE stack
  /\ last' = Ended("cancelTransaction", err, <<"commitTransaction">>, NoResult, Pending)
  /\ UNCHANGED <<supply, process, classes, wrappers>>
  /\ active' = IF err = NoError THEN active - 1 ELSE active

\* Realm.cancelTransaction
cancelTransaction ==
  LET err == EngineCancelError(internal) IN
  /\ internal' = IF err = NoError THEN EngineCancel(internal, committed) ELSE internal
  /\ stack' = IF err = NoError THEN Disown(stack) ELSE stack
  /\ last' = Ended("cancelTransaction", err, <<"cancelTransaction">>, NoResult, Pending)
  /\ UNCHANGED <<supply, process, committed, classes, wrappers>>
  /\ active' = IF err = NoError THEN active - 1 ELSE active

\* write with beginTransaction inside the try block: a failing begin runs the
\* catch block, which cancels the transaction that is active
write_begin_intry ==
  LET err == EngineBeginError(internal)
      cancels == err /= NoError /\ EngineCancelError(internal) = NoError
  IN
  /\ internal' = IF err = NoError THEN EngineBegin(internal)
                 ELSE IF cancels THEN EngineCancel(internal, committed) ELSE internal
  /\ stack' = IF err = NoError /\ Len(stack) < MaxDepth THEN Append(stack, Frame)
              ELSE IF cancels THEN Disown(stack) ELSE stack
  /\ err = NoError => Len(stack) < MaxDepth
  /\ last' = Outcome(IF err = NoError THEN "write_begin" ELSE "write", err,
                     IF err = NoError THEN <<"beginTransaction">>
                     ELSE <<"beginTransaction", "cancelTransaction">>, NoResult)
  /\ UNCHANGED <<supply, process, committed, classes, wrappers>>
  /\ active' = IF err = NoError THEN active + 1 ELSE active

\* Realm.write, up to the invocation of the callback: beginTransaction is
\* called outside the try block, so its failure leaves write at once
write_begin ==
  LET err == EngineBeginError(internal) IN
  /\ internal' = IF err = NoError THEN EngineBegin(internal) ELSE internal
  /\ stack' = IF err = NoError /\ Len(stack) < MaxDepth
                THEN Append(stack, Frame) ELSE stack
  /\ err = NoError => Len(stack) < MaxDepth
  /\ last' = Outcome(IF err = NoError THEN "write_begin" ELSE "write", err,
                     <<"beginTransaction">>, NoResult)
  /\ UNCHANGED <<supply, process, committed, classes, wrappers>>
  /\ active' = IF err = NoError THEN active + 1 ELSE active

\* write that commits and drops the callback's result
write_return_noresult(v) ==
  LET err == EngineCommitError(internal) IN
  /\ InCallback
  /\ internal' = IF err = NoError THEN EngineCommit(internal) ELSE internal
  /\ committed' = IF err = NoError THEN Data(internal) ELSE committed
  /\ stack' = Disown(SubSeq(stack, 1, Len(stack) - 1))
  /\ last' = Ended("write", err, <<"commitTransaction">>, NoResult, Top.own /\ Pending)
  /\ UNCHANGED <<supply, process, classes, wrappers>>
  /\ active' = IF err = NoError THEN active - 1 ELSE active

\* Realm.write, the callback returned v: commitTransaction, then return v
write_return(v) ==
  LET err == EngineCommitError(internal) IN
  /\ InCallback
  /\ internal' = IF err = NoError THEN EngineCommit(internal) ELSE internal
  /\ committed' = IF err = NoError THEN Data(internal) ELSE committed
  /\ stack' = Disown(SubSeq(stack, 1, Len(stack) - 1))
  /\ last' = Ended("write", err, <<"commitTransaction">>,
                   IF err = NoError THEN v ELSE NoResult, Top.own /\ Pending)
  /\ UNCHANGED <<supply, process, classes, wrappers>>
  /\ active' = IF err = NoError THEN active - 1 ELSE active

\* write whose catch block re-raises without cancelling
write_catch_nocancel(e) ==
  /\ InCallback
  /\ stack' = SubSeq(stack, 1, Len(stack) - 1)
  /\ last' = Ended("write", e, <<>>, NoResult, Top.own /\ Pending)
  /\ UNCHANGED <<supply, process, internal, committed, classes, wrappers, active>>

\* Realm.write, the callback raised e: cancelTransaction, then throw e; a
\* failure of cancelTransaction leaves the catch block instead of e
write_catch(e) ==
  LET err == EngineCancelError(internal) IN
  /\ InCallback
  /\ internal' = IF err = NoError THEN EngineCancel(internal, committed) ELSE internal
  /\ stack' = Disown(SubSeq(stack, 1, Len(stack) - 1))
  /\ last' = Ended("write", IF err = NoError THEN e ELSE err, <<"cancelTransaction">>,
                   NoResult, Top.own /\ Pending)
  /\ UNCHANGED <<supply, process, committed, classes, wrappers>>
  /\ active' = IF err = NoError THEN active - 1 ELSE active

\* Realm.close
close ==
  /\ internal' = EngineClose(internal, committed)
  /\ stack' = IF internal.isInTransaction THEN Disown(stack) ELSE stack
  /\ last' = Outcome("close", NoError, <<"close">>, NoResult)
  /\ UNCHANGED <<supply, process, committed, classes, wrappers, active>>

\* ------------------------------------------------ object lifecycle manager
\* the boolean overload with true taken for Never
NormalizeMode_trueNever(mode) ==
  IF mode = "true" \/ mode = "false" \/ mode = "undefined" THEN "never" ELSE mode

\* no boolean overload and no default: the argument is passed on as it is
NormalizeMode_passthrough(mode) == mode

\* the boolean overload of `mode` and its default (Realm.create, first lines)
NormalizeMode(mode) ==
  IF mode = "true" THEN "all"
  ELSE IF mode = "false" \/ mode = "undefined" THEN "never"
  ELSE mode

\* RealmObject.create: insert a row, or update the row with the same primary key
ObjectCreateError(h, type, values, mode) ==
  IF ~h.isInTransaction THEN IllegalStateError
  ELSE IF ~HasTable(h, type) THEN NoSuchTableError
  ELSE IF HasPrimaryKey(type) /\ mode = "never" /\ RowsWithPk(h, type, values.pk) /= {}
    THEN DuplicateKeyError
  ELSE NoError
\* a create that never finds the row to update
ObjectCreateUpdates_never(h, type, values) == FALSE
ObjectCreateUpdates(h, type, values) ==
  HasPrimaryKey(type) /\ RowsWithPk(h, type, values.pk) /= {}
\* a create that stores no default for a property the values omit
ObjectCreate_nodefault(h, type, values, mode, fresh) ==
  IF ObjectCreateUpdates(h, type, values)
    THEN LET old == CHOOSE r \in RowsWithPk(h, type, values.pk) : TRUE
         IN [h EXCEPT !.tables[type] = (@ \ {old}) \cup {[old EXCEPT !.val = values.val]}]
    ELSE LET row == [key |-> fresh,
                     pk |-> IF HasPrimaryKey(type) THEN values.pk ELSE NoPk,
                     val |-> IF HasAge(type) THEN values.val ELSE DefaultVal]
         IN [h EXCEPT !.tables[type] = @ \cup {row}]
ObjectCreate(h, type, values, mode, fresh) ==
  IF ObjectCreateUpdates(h, type, values)
    THEN LET old == CHOOSE r \in RowsWithPk(h, type, values.pk) : TRUE
             val == IF values.val /= NoVal THEN values.val
                    ELSE IF mode = "modified" THEN old.val ELSE DefaultVal
         IN [h EXCEPT !.tables[type] = (@ \ {old}) \cup {[old EXCEPT !.val = val]}]
    ELSE LET row == [key |-> fresh,
                     pk |-> IF HasPrimaryKey(type) THEN values.pk ELSE NoPk,
                     val |-> IF values.val /= NoVal /\ HasAge(type)
                               THEN values.val ELSE DefaultVal]
         IN [h EXCEPT !.tables[type] = @ \cup {row}]

\* what callers pass as `values`: a plain object, or a detached Realm.Object
Values == [pk : PKs, val : {1, NoVal}, detached : BOOLEAN]
\* the calls of create that are tried: every class with every attached value
\* and every mode; a detached value and an unknown class name with a valid
\* and an invalid mode
CreateArgs ==
  {<<t, v, m>> \in Classes \X Values \X ModeArgs :
     ~v.detached /\ (HasAge(t) \/ v.val = NoVal) /\ (HasPrimaryKey(t) \/ v.pk = 1)}
  \cup {<<t, v, m>> \in TypeNames \X Values \X {"never", "bogus"} :
          /\ v.pk = 1 /\ v.val = NoVal
          /\ v.detached \/ t = Ghost}

\* the call of RealmObject.create with the mode it is handed
CreateCall(mode) ==
  IF mode = "never" THEN "create(never)"
  ELSE IF mode = "modified" THEN "create(modified)"
  ELSE IF mode = "all" THEN "create(all)"
  ELSE "create(other)"

\* the calls of create tried where the handle runs through its transactions:
\* attached values with each of the three modes
TxCreateArgs == {a \in CreateArgs : ~a[2].detached /\ a[3] \in UpdateMode}

\* create that resolves the class helpers before it checks the handle is open
create_helpersfirst(type, values, modeArg) ==
  LET mode == NormalizeMode(modeArg)
      err == IF values.detached THEN DetachedObjectError
             ELSE IF mode \notin UpdateMode THEN InvalidArgumentError
             ELSE IF GetHelpersError(classes, type) /= NoError THEN ClassNotFoundError
             ELSE IF internal.isClosed THEN IllegalStateError
             ELSE ObjectCreateError(internal, type, values, mode)
      inserts == err = NoError /\ ~ObjectCreateUpdates(internal, type, values)
  IN
  /\ inserts => nextKey <= supply
  /\ last' = Outcome("create", err,
                      IF err \in {DetachedObjectError, InvalidArgumentError} THEN <<>>
                      ELSE IF GetHelpersError(classes, type) /= NoError THEN <<>>
                      ELSE IF internal.isClosed THEN <<"verifyOpen">>
                      ELSE <<"verifyOpen", CreateCall(mode)>>,
                      NoResult)
  /\ internal' = IF err = NoError
                   THEN ObjectCreate(internal, type, values, mode, nextKey) ELSE internal
  /\ wrappers' = IF inserts THEN wrappers \cup {[class |-> type, key |-> nextKey]} ELSE wrappers
  /\ UNCHANGED <<supply, process, committed, classes, stack, active>>

\* Realm.create
create(type, values, modeArg) ==
  LET mode == NormalizeMode(modeArg)
      err == IF values.detached THEN DetachedObjectError
             ELSE IF mode \notin UpdateMode THEN InvalidArgumentError
             ELSE IF internal.isClosed THEN IllegalStateError
             ELSE IF GetHelpersError(classes, type) /= NoError THEN ClassNotFoundError
             ELSE ObjectCreateError(internal, type, values, mode)
      inserts == err = NoError /\ ~ObjectCreateUpdates(internal, type, values)
  IN
  /\ inserts => nextKey <= supply
  /\ last' = Outcome("create", err,
                      IF err \in {DetachedObjectError, InvalidArgumentError} THEN <<>>
                      ELSE IF err \in {IllegalStateError, ClassNotFoundError} /\ 
                              (internal.isClosed \/ GetHelpersError(classes, type) /= NoError)
                        THEN <<"verifyOpen">>
                      ELSE <<"verifyOpen", CreateCall(mode)>>,
                      NoResult)
  /\ internal' = IF err = NoError
                   THEN ObjectCreate(internal, type, values, mode, nextKey) ELSE internal
  /\ wrappers' = IF inserts THEN wrappers \cup {[class |-> type, key |-> nextKey]} ELSE wrappers
  /\ UNCHANGED <<supply, process, committed, classes, stack, active>>

\* Realm.delete, the loop of the iterable branch: no validity check, the
\* engine refuses a key that is not in the table
RECURSIVE RemoveEach(_, _, _, _)
RemoveEach(h, cm, items, eng) ==
  IF items = <<>> THEN [h |-> h, err |-> NoError, eng |-> eng]
  ELSE LET object == Head(items) IN
    IF GetHelpersError(cm, object.class) /= NoError
      THEN [h |-> h, err |-> ClassNotFoundError, eng |-> eng]
    ELSE IF ~HasTable(h, object.class)
      THEN [h |-> h, err |-> NoSuchTableError, eng |-> Append(eng, "getTable")]
    ELSE IF RowsWithKey(h, object.class, object.key) = {}
      THEN [h |-> h, err |-> KeyNotFoundError, eng |-> Append(eng, "removeObject")]
    ELSE RemoveEach(RemoveObject(h, object.class, object.key), cm, Tail(items),
                    Append(eng, "removeObject"))

\* the single-object branch without assert.isValid
RemoveOne_unchecked(h, cm, subject) ==
  IF GetHelpersError(cm, subject.class) /= NoError
    THEN [h |-> h, err |-> ClassNotFoundError, eng |-> <<>>]
  ELSE IF ~HasTable(h, subject.class)
    THEN [h |-> h, err |-> NoSuchTableError, eng |-> <<"getTable">>]
  ELSE IF RowsWithKey(h, subject.class, subject.key) = {}
    THEN [h |-> h, err |-> KeyNotFoundError, eng |-> <<"removeObject">>]
  ELSE [h |-> RemoveObject(h, subject.class, subject.key), err |-> NoError,
        eng |-> <<"removeObject">>]

\* Realm.delete, the branch of a single Realm.Object
RemoveOne(h, cm, subject) ==
  IF GetHelpersError(cm, subject.class) /= NoError
    THEN [h |-> h, err |-> ClassNotFoundError, eng |-> <<>>]
  ELSE IF AssertIsValid(h, subject) /= NoError
    THEN [h |-> h, err |-> InvalidatedObjectError, eng |-> <<>>]
  ELSE [h |-> RemoveObject(h, subject.class, subject.key), err |-> NoError,
        eng |-> <<"removeObject">>]

\* what callers pass as `subject`: a Realm.Object, an array / List / Results
\* of them, something that is not an object, an object that is not iterable
SeqsOf(S, n) == UNION {[1..m -> S] : m \in 0..n}
Subjects ==
  {[kind |-> "object", items |-> <<w>>] : w \in wrappers}
  \cup {[kind |-> "array", items |-> s] : s \in SeqsOf(wrappers, MaxSeq)}
  \cup {[kind |-> "number", items |-> <<>>], [kind |-> "plain", items |-> <<>>]}

\* delete that checks the shape of the subject before the transaction state
delete_shapefirst(subject) ==
  LET res == IF AssertObject(subject) /= NoError
               THEN [h |-> internal, err |-> InvalidArgumentError, eng |-> <<>>]
             ELSE IF AssertInTransaction(internal) /= NoError
               THEN [h |-> internal, err |-> IllegalStateError, eng |-> <<>>]
             ELSE IF subject.kind = "object"
               THEN RemoveOne(internal, classes, subject.items[1])
             ELSE IF subject.kind = "array"
               THEN RemoveEach(internal, classes, subject.items, <<>>)
             ELSE [h |-> internal, err |-> NotImplementedError, eng |-> <<>>]
  IN
  /\ internal' = res.h
  /\ last' = Outcome("delete", res.err, res.eng, NoResult)
  /\ UNCHANGED <<supply, process, committed, classes, wrappers, stack, active>>

\* Realm.delete
delete(subject) ==
  LET res == IF AssertInTransaction(internal) /= NoError
               THEN [h |-> internal, err |-> IllegalStateError, eng |-> <<>>]
             ELSE IF AssertObject(subject) /= NoError
               THEN [h |-> internal, err |-> InvalidArgumentError, eng |-> <<>>]
             ELSE IF subject.kind = "object"
               THEN RemoveOne(internal, classes, subject.items[1])
             ELSE IF subject.kind = "array"
               THEN RemoveEach(internal, classes, subject.items, <<>>)
             ELSE [h |-> internal, err |-> NotImplementedError, eng |-> <<>>]
  IN
  /\ internal' = res.h
  /\ last' = Outcome("delete", res.err, res.eng, NoResult)
  /\ UNCHANGED <<supply, process, committed, classes, wrappers, stack, active>>

\* deleteModel that re-applies the schema under the version it has
deleteModel_sameversion(name) ==
  LET err == IF AssertInTransaction(internal) /= NoError THEN IllegalStateError
             ELSE DeleteDataError(internal, name)
  IN
  /\ err = NoError => internal.schemaVersion < MaxVersion
  /\ internal' = IF err = NoError
                   THEN UpdateSchema(DeleteDataForObject(internal, name),
                                     internal.schema \ {name}, internal.schemaVersion)
                   ELSE internal
  /\ last' = Outcome("deleteModel", err,
                     IF AssertInTransaction(internal) /= NoError THEN <<>>
                     ELSE IF err /= NoError THEN <<"deleteDataForObject">>
                     ELSE <<"deleteDataForObject", "updateSchema">>, NoResult)
  /\ UNCHANGED <<supply, process, committed, classes, wrappers, stack, active>>

\* deleteModel that goes on to updateSchema when deleteDataForObject fails
deleteModel_ignoresfailure(name) ==
  LET err == IF AssertInTransaction(internal) /= NoError THEN IllegalStateError
             ELSE NoError
  IN
  /\ err = NoError => internal.schemaVersion < MaxVersion
  /\ internal' = IF err = NoError
                   THEN UpdateSchema(DeleteDataForObject(internal, name),
                                     internal.schema \ {name}, internal.schemaVersion + 1)
                   ELSE internal
  /\ last' = Outcome("deleteModel", err,
                     IF err /= NoError THEN <<>>
                     ELSE <<"deleteDataForObject", "updateSchema">>, NoResult)
  /\ UNCHANGED <<supply, process, committed, classes, wrappers, stack, active>>

\* Realm.deleteModel: the Class Map is left as it is
deleteModel(name) ==
  LET err == IF AssertInTransaction(internal) /= NoError THEN IllegalStateError
             ELSE DeleteDataError(internal, name)
  IN
  /\ err = NoError => internal.schemaVersion < MaxVersion
  /\ internal' = IF err = NoError
                   THEN UpdateSchema(DeleteDataForObject(internal, name),
                                     internal.schema \ {name}, internal.schemaVersion + 1)
                   ELSE internal
  /\ last' = Outcome("deleteModel", err,
                     IF AssertInTransaction(internal) /= NoError THEN <<>>
                     ELSE IF err /= NoError THEN <<"deleteDataForObject">>
                     ELSE <<"deleteDataForObject", "updateSchema">>, NoResult)
  /\ UNCHANGED <<supply, process, committed, classes, wrappers, stack, active>>

\* deleteAll that clears only the tables of classes with a primary key
ClearAll_pkonly(h, cs) ==
  [h EXCEPT !.tables = [c \in Classes |-> IF c \in cs /\ HasPrimaryKey(c) THEN {} ELSE @[c]]]

\* Realm.deleteAll: clears the table of every class of the schema
RECURSIVE ClearAll(_, _)
ClearAll(h, cs) ==
  IF cs = {} THEN h
  ELSE LET c == CHOOSE x \in cs : TRUE IN ClearAll(ClearTable(h, c), cs \ {c})
deleteAll ==
  LET err == AssertInTransaction(internal) IN
  /\ internal' = IF err = NoError THEN ClearAll(internal, internal.schema) ELSE internal
  /\ last' = Outcome("deleteAll", err,
                     IF err = NoError THEN [i \in 1..Cardinality(internal.schema) |-> "clear"]
                     ELSE <<>>, NoResult)
  /\ UNCHANGED <<supply, process, committed, classes, wrappers, stack, active>>

\* ------------------------------------------------------------------ reads
\* Table.findPrimaryKey: the rows with that primary key (none: the key -1)
FindPrimaryKey(h, c, p) == RowsWithPk(h, c, p)

\* objectForPrimaryKey without the check that the class has a primary key
objectForPrimaryKey_nopkcheck(type, primaryKey) ==
  LET err == IF GetHelpersError(classes, type) /= NoError THEN ClassNotFoundError
             ELSE IF internal.isClosed THEN IllegalStateError
             ELSE IF ~HasTable(internal, type) THEN NoSuchTableError
             ELSE NoError
      found == IF err = NoError THEN FindPrimaryKey(internal, type, primaryKey) ELSE {}
  IN
  /\ last' = Found("objectForPrimaryKey", err,
                   IF err = ClassNotFoundError THEN <<>>
                   ELSE IF err /= NoError THEN <<"getTable">>
                   ELSE <<"getTable", "findPrimaryKey">>,
                   IF found = {} THEN NoResult ELSE AnObject, found)
  /\ UNCHANGED <<supply, process, internal, committed, classes, wrappers, stack, active>>

\* Realm.objectForPrimaryKey: returns the typed object that wraps the row
\* found, or undefined
objectForPrimaryKey(type, primaryKey) ==
  LET err == IF GetHelpersError(classes, type) /= NoError THEN ClassNotFoundError
             ELSE IF ~HasPrimaryKey(type) THEN SchemaMismatchError
             ELSE IF internal.isClosed THEN IllegalStateError
             ELSE IF ~HasTable(internal, type) THEN NoSuchTableError
             ELSE NoError
      found == IF err = NoError THEN FindPrimaryKey(internal, type, primaryKey) ELSE {}
  IN
  /\ last' = Found("objectForPrimaryKey", err,
                   IF err \in {ClassNotFoundError, SchemaMismatchError} THEN <<>>
                   ELSE IF err /= NoError THEN <<"getTable">>
                   ELSE <<"getTable", "findPrimaryKey">>,
                   IF found = {} THEN NoResult ELSE AnObject, found)
  /\ UNCHANGED <<supply, process, internal, committed, classes, wrappers, stack, active>>

\* Realm.objects: returns a Results over the rows of the table
objects(type) ==
  LET err == IF GetHelpersError(classes, type) /= NoError THEN ClassNotFoundError
             ELSE IF TableType(type) = Embedded THEN UnsupportedOperationError
             ELSE IF TableType(type) = TopLevelAsymmetric THEN UnsupportedOperationError
             ELSE IF internal.isClosed THEN IllegalStateError
             ELSE IF ~HasTable(internal, type) THEN NoSuchTableError
             ELSE NoError
  IN
  /\ last' = Found("objects", err,
                   IF err \in {ClassNotFoundError, UnsupportedOperationError}
                     THEN <<>> ELSE <<"getTable">>,
                   IF err = NoError THEN SomeResults ELSE NoResult,
                   IF err = NoError THEN internal.tables[type] ELSE {})
  /\ UNCHANGED <<supply, process, internal, committed, classes, wrappers, stack, active>>

\* ------------------------------------------------------------ schema update
\* what callers pass as `schema`: the class names it declares, and whether
\* validateRealmSchema accepts it
SchemaArgs ==
  [valid : {TRUE}, names : SUBSET Classes] \cup [valid : {FALSE}, names : {Classes}]

\* _updateSchema that hands the engine the version the handle has
_updateSchema_sameversion(schema) ==
  LET err == IF ~schema.valid THEN SchemaValidationError
             ELSE IF ~isInTransaction THEN IllegalStateError
             ELSE NoError
  IN
  /\ err = NoError => internal.schemaVersion < MaxVersion
  /\ internal' = IF err = NoError
                   THEN UpdateSchema(internal, schema.names, internal.schemaVersion)
                   ELSE internal
  /\ classes' = IF err = NoError THEN schema.names ELSE classes
  /\ last' = Outcome("_updateSchema", err,
                     IF err = NoError THEN <<"updateSchema">> ELSE <<>>, NoResult)
  /\ UNCHANGED <<supply, process, committed, wrappers, stack, active>>

\* _updateSchema that examines the transaction state before it validates
_updateSchema_statefirst(schema) ==
  LET err == IF ~isInTransaction THEN IllegalStateError
             ELSE IF ~schema.valid THEN SchemaValidationError
             ELSE NoError
  IN
  /\ err = NoError => internal.schemaVersion < MaxVersion
  /\ internal' = IF err = NoError
                   THEN UpdateSchema(internal, schema.names, internal.schemaVersion + 1)
                   ELSE internal
  /\ classes' = IF err = NoError THEN schema.names ELSE classes
  /\ last' = Outcome("_updateSchema", err,
                     IF err = NoError THEN <<"updateSchema">> ELSE <<>>, NoResult)
  /\ UNCHANGED <<supply, process, committed, wrappers, stack, active>>

\* Realm._updateSchema
_updateSchema(schema) ==
  LET err == IF ~schema.valid THEN SchemaValidationError
             ELSE IF ~isInTransaction THEN IllegalStateError
             ELSE NoError
  IN
  /\ err = NoError => internal.schemaVersion < MaxVersion
  /\ internal' = IF err = NoError
                   THEN UpdateSchema(internal, schema.names, internal.schemaVersion + 1)
                   ELSE internal
  /\ classes' = IF err = NoError THEN schema.names ELSE classes
  /\ last' = Outcome("_updateSchema", err,
                     IF err = NoError THEN <<"updateSchema">> ELSE <<>>, NoResult)
  /\ UNCHANGED <<supply, process, committed, wrappers, stack, active>>

\* ------------------------------------------- operations outside a transaction
\* binding.Realm.compact / binding.Realm.convert on a closed handle
EngineOpenError(h) == IF h.isClosed THEN IllegalStateError ELSE NoError

\* compact without assert.outTransaction
compact_unguarded ==
  LET err == EngineOpenError(internal) IN
  /\ \E compacted \in {"true", "false"} :
       last' = Outcome("compact", err, <<"compact">>,
                       IF err = NoError THEN compacted ELSE NoResult)
  /\ UNCHANGED <<supply, process, internal, committed, classes, wrappers, stack, active>>

\* Realm.compact: it returns what binding.Realm.compact returns, true when
\* the engine compacted the file and false when it did not
compact ==
  LET pre == AssertOutTransaction(internal)
      err == IF pre /= NoError THEN pre ELSE EngineOpenError(internal)
  IN
  /\ \E compacted \in {"true", "false"} :
       last' = Outcome("compact", err, IF pre = NoError THEN <<"compact">> ELSE <<>>,
                       IF err = NoError THEN compacted ELSE NoResult)
  /\ UNCHANGED <<supply, process, internal, committed, classes, wrappers, stack, active>>

\* validateConfiguration and the assert of Realm.determineSchemaMode
Configs == [readOnly : BOOLEAN, deleteRealmIfMigrationNeeded : BOOLEAN]
ValidateConfigurationError(config) ==
  IF config.readOnly /\ config.deleteRealmIfMigrationNeeded THEN ConfigurationError
  ELSE IF "path" \in DOMAIN config /\ config.path = EmptyPath THEN ConfigurationError
  ELSE NoError

\* ------------------------------------------------- configuration resolver
\* what callers pass as configuration: the two flags, and a path or none
\* (a configuration without the field `path` has config.path === undefined)
OpenConfigs ==
  Configs \cup [readOnly : BOOLEAN, deleteRealmIfMigrationNeeded : BOOLEAN, path : Paths]

\* the configurations Realm.determinePath is studied with: only `path` matters
PathConfigs ==
  [readOnly : {FALSE}, deleteRealmIfMigrationNeeded : {FALSE}]
    \cup [readOnly : {FALSE}, deleteRealmIfMigrationNeeded : {FALSE}, path : Paths]

\* fs.isAbsolutePath / fs.joinPaths / fs.getDefaultDirectoryPath
IsAbsolutePath(path) == path /= EmptyPath /\ Head(path) = Root
JoinPaths(dir, path) == dir \o path
GetDefaultDirectoryPath == DefaultDirectoryPath

\* Realm.defaultPath: normalizePath("default.realm"), evaluated when the
\* class is defined
DefaultPath == JoinPaths(GetDefaultDirectoryPath, <<DefaultFileName>>)

\* what normalizePath gives: a failure, or the path it returns
Failed(err) == [err |-> err, path |-> EmptyPath]
Returned(path) == [err |-> NoError, path |-> path]

\* normalizePath without the test for the empty string
NormalizePath_noempty(path) ==
  IF IsAbsolutePath(path) THEN Returned(path)
  ELSE Returned(JoinPaths(GetDefaultDirectoryPath, path))

\* Realm.normalizePath for a path that is a string
NormalizePath(path) ==
  IF Len(path) = 0 THEN Failed(ConfigurationError)
  ELSE IF IsAbsolutePath(path) THEN Returned(path)
  ELSE Returned(JoinPaths(GetDefaultDirectoryPath, path))

\* Realm.determinePath: normalizePath(config.path), undefined gives defaultPath
DeterminePath(config) ==
  IF "path" \notin DOMAIN config THEN Returned(DefaultPath) ELSE NormalizePath(config.path)

\* determineSchemaMode with the two modes exchanged
DetermineSchemaMode_exchanged(config) ==
  IF config.readOnly THEN "ResetFile"
  ELSE IF config.deleteRealmIfMigrationNeeded THEN "Immutable"
  ELSE NoResult

\* Realm.determineSchemaMode: the assert, and the mode
DetermineSchemaModeError(config) ==
  IF ~(~config.readOnly \/ ~config.deleteRealmIfMigrationNeeded)
    THEN ConfigurationError ELSE NoError
DetermineSchemaMode(config) ==
  IF config.readOnly THEN "Immutable"
  ELSE IF config.deleteRealmIfMigrationNeeded THEN "ResetFile"
  ELSE NoResult

\* Realm.determinePath called on its own (Realm.exists resolves the path this
\* way)
determinePath(config) ==
  LET err == DeterminePath(config).err IN
  /\ resolved' = DeterminePath(config).path
  /\ last' = Outcome("determinePath", err, <<>>, NoResult)
  /\ UNCHANGED <<supply, internal, committed, classes, wrappers, stack, active,
                 registry, handles, directory, importer>>

\* --------------------------------------------------------- handle registry
\* the files the engine keeps for a database of the default directory
InDefaultDirectory(path) ==
  /\ Len(path) = Len(DefaultDirectoryPath) + 1
  /\ SubSeq(path, 1, Len(DefaultDirectoryPath)) = DefaultDirectoryPath
EngineFiles(path) ==
  IF InDefaultDirectory(path)
    THEN LET name == path[Len(path)] IN
         {File(name), File(name \o <<"lock">>), File(name \o <<"note">>),
          Directory(name \o <<"management">>)}
    ELSE {}

\* Realm.deleteFile: determinePath without validating the configuration, then
\* the file, its lock and note files and its management directory are
\* removed, whether or not a handle on the file is open; the handles and the
\* registry are not touched
deleteFile(config) ==
  LET err == DeterminePath(config).err
      path == DeterminePath(config).path
  IN
  /\ resolved' = IF err = NoError THEN path ELSE resolved
  /\ directory' = IF err = NoError THEN directory \ EngineFiles(path) ELSE directory
  /\ last' = Outcome("deleteFile", err,
                     IF err = NoError
                       THEN <<"removeFile", "removeFile", "removeFile", "removeDirectory">>
                       ELSE <<>>,
                     NoResult)
  /\ UNCHANGED <<supply, internal, committed, classes, wrappers, stack, active,
                 registry, handles, importer>>

\* Realm.writeCopyTo: assert.outTransaction, validateConfiguration, then
\* transformConfig (determinePath, determineSchemaMode) and the engine's
\* convert, which writes the copy at the resolved path
writeCopyTo(config) ==
  LET pre == AssertOutTransaction(internal)
      valid == pre = NoError /\ ValidateConfigurationError(config) = NoError
      path == DeterminePath(config)
      transformed == /\ valid /\ path.err = NoError
                     /\ DetermineSchemaModeError(config) = NoError
      err == IF pre /= NoError THEN pre
             ELSE IF ValidateConfigurationError(config) /= NoError THEN ConfigurationError
             ELSE IF path.err /= NoError THEN path.err
             ELSE IF DetermineSchemaModeError(config) /= NoError THEN ConfigurationError
             ELSE EngineOpenError(internal)
  IN
  /\ last' = Outcome("writeCopyTo", err, IF transformed THEN <<"convert">> ELSE <<>>,
                     NoResult)
  /\ resolved' = IF valid /\ path.err = NoError THEN path.path ELSE resolved
  /\ directory' = IF err = NoError /\ InDefaultDirectory(path.path)
                    THEN directory \cup {File(path.path[Len(path.path)])}
                    ELSE directory
  /\ UNCHANGED <<supply, internal, committed, classes, wrappers, stack, active,
                 registry, handles, importer>>

\* the handle id a newly opened handle gets
FreeHandles == {i \in OtherHandles : handles[i] = Unused}
NewHandle == CHOOSE i \in FreeHandles : \A j \in FreeHandles : i <= j

\* the constructor with the handle registered before anything is validated
open_registersfirst(config) ==
  LET err == ValidateConfigurationError(config) IN
  /\ FreeHandles /= {}
  /\ last' = Outcome("open", err, IF err = NoError THEN <<"getSharedRealm">> ELSE <<>>,
                     IF err = NoError THEN DetermineSchemaMode(config) ELSE NoResult)
  /\ handles' = [handles EXCEPT ![NewHandle] = Open]
  /\ registry' = registry \cup {NewHandle}
  /\ directory' = IF err = NoError
                    THEN directory \cup EngineFiles(DeterminePath(config).path)
                    ELSE directory
  /\ resolved' = IF err = NoError THEN DeterminePath(config).path ELSE resolved
  /\ UNCHANGED <<supply, internal, committed, classes, wrappers, stack, active, importer>>

\* Realm.open / the Realm constructor, for another handle of the process:
\* validateConfiguration, transformConfig (determinePath, determineSchemaMode),
\* getSharedRealm, RETURNED_REALMS.add
open(config) ==
  LET err == IF ValidateConfigurationError(config) /= NoError THEN ConfigurationError
             ELSE IF DeterminePath(config).err /= NoError THEN DeterminePath(config).err
             ELSE DetermineSchemaModeError(config)
  IN
  /\ err = NoError => FreeHandles /= {}
  /\ last' = Outcome("open", err, IF err = NoError THEN <<"getSharedRealm">> ELSE <<>>,
                     IF err = NoError THEN DetermineSchemaMode(config) ELSE NoResult)
  /\ handles' = IF err = NoError THEN [handles EXCEPT ![NewHandle] = Open] ELSE handles
  /\ registry' = IF err = NoError THEN registry \cup {NewHandle} ELSE registry
  /\ directory' = IF err = NoError
                    THEN directory \cup EngineFiles(DeterminePath(config).path)
                    ELSE directory
  /\ resolved' = IF err = NoError THEN DeterminePath(config).path ELSE resolved
  /\ UNCHANGED <<supply, internal, committed, classes, wrappers, stack, active, importer>>

\* Realm.close on another handle of the process
closeHandle(i) ==
  /\ handles[i] = Open
  /\ handles' = [handles EXCEPT ![i] = Closed]
  /\ UNCHANGED <<supply, internal, committed, classes, wrappers, stack, last, active,
                 registry, directory, resolved, importer>>

\* the runtime collects a handle the application no longer refers to: the
\* WeakRef of the registry stops resolving
collect(i) ==
  /\ handles[i] \in {Open, Closed}
  /\ handles' = [handles EXCEPT ![i] = Collected]
  /\ UNCHANGED <<supply, internal, committed, classes, wrappers, stack, last, active,
                 registry, directory, resolved, importer>>

\* name.endsWith("." + the segments of suffix joined by ".")
EndsWith(name, suffix) ==
  /\ Len(name) > Len(suffix)
  /\ SubSeq(name, Len(name) - Len(suffix) + 1, Len(name)) = suffix

\* the two branches of the loop over the directory
RemovesDirectory(dirent) ==
  dirent.isDirectory /\ EndsWith(dirent.name, <<"realm", "management">>)
\* the second branch of the loop without the suffix list: every name that
\* has a segment "realm"
RemovesFile_anyrealm(dirent) ==
  /\ ~RemovesDirectory(dirent)
  /\ \E k \in 1..Len(dirent.name) : k > 1 /\ dirent.name[k] = "realm"
RemovesFile(dirent) ==
  /\ ~RemovesDirectory(dirent)
  /\ \/ EndsWith(dirent.name, <<"realm">>)
     \/ EndsWith(dirent.name, <<"realm", "note">>)
     \/ EndsWith(dirent.name, <<"realm", "lock">>)
     \/ EndsWith(dirent.name, <<"realm", "log">>)

Repeat(call, n) == [i \in 1..n |-> call]

\* the handles of the registry that still resolve, closed or not
Stragglers_closed(reg, hs) == {i \in reg \cap OtherHandles : hs[i] \in {Open, Closed}}
\* the handles of the registry that still resolve and are not closed
Stragglers(reg, hs) == {i \in reg \cap OtherHandles : hs[i] = Open}

\* clearTestState without the loop that closes the handles of the registry
clearTestState_clearonly ==
  LET dirs == {e \in directory : RemovesDirectory(e)}
      files == {e \in directory : RemovesFile(e)}
  IN
  /\ registry' = {}
  /\ directory' = (directory \ dirs) \ files
  /\ last' = Outcome("clearTestState", NoError,
                     <<"clear", "readDirectory">>
                       \o Repeat("removeDirectory", Cardinality(dirs))
                       \o Repeat("removeFile", Cardinality(files)),
                     NoResult)
  /\ UNCHANGED <<supply, internal, committed, classes, wrappers, stack, active,
                 handles, resolved, importer>>

\* Realm.clearTestState; the calls it makes are recorded as the closes, the
\* clear of the registry, the read of the directory and the removals
clearTestState ==
  LET closesSelf == Self \in registry /\ ~internal.isClosed
      closes == Stragglers(registry, handles)
      dirs == {e \in directory : RemovesDirectory(e)}
      files == {e \in directory : RemovesFile(e)}
  IN
  /\ internal' = IF closesSelf THEN EngineClose(internal, committed) ELSE internal
  /\ stack' = IF closesSelf /\ internal.isInTransaction THEN Disown(stack) ELSE stack
  /\ handles' = [i \in OtherHandles |-> IF i \in closes THEN Closed ELSE handles[i]]
  /\ registry' = {}
  /\ directory' = (directory \ dirs) \ files
  /\ last' = Outcome("clearTestState", NoError,
                     Repeat("close", Cardinality(closes) + IF closesSelf THEN 1 ELSE 0)
                       \o <<"clear", "readDirectory">>
                       \o Repeat("removeDirectory", Cardinality(dirs))
                       \o Repeat("removeFile", Cardinality(files)),
                     NoResult)
  /\ UNCHANGED <<supply, committed, classes, wrappers, active, resolved, importer>>

InitProcess ==
  /\ internal = [isInTransaction |-> FALSE, isClosed |-> FALSE,
                 schema |-> Classes, schemaVersion |-> 0, tables |-> EmptyTables]
  /\ committed = [schema |-> Classes, schemaVersion |-> 0, tables |-> EmptyTables]
  /\ classes = Classes
  /\ wrappers = {}
  /\ stack = <<>>
  /\ last = Outcome("open", NoError, <<>>, NoResult)
  /\ active = 0
  /\ supply = 0
  /\ registry = {Self}
  /\ handles = [i \in OtherHandles |-> Unused]
  /\ directory \in InitDirectories
  /\ resolved = EmptyPath
  /\ importer = NoImporter

\* The process: it opens and closes handles, the runtime collects handles,
\* and the test teardown sweeps the registry and the default directory.
NextProcess ==
  \/ \E config \in OpenConfigs : open(config)
  \/ \E config \in PathConfigs : determinePath(config)
  \/ \E config \in PathConfigs : deleteFile(config)
  \/ \E i \in OtherHandles : closeHandle(i)
  \/ \E i \in OtherHandles : collect(i)
  \/ close
  \/ clearTestState

SpecProcess == InitProcess /\ [][NextProcess]_vars

\* ------------------------------------------------------------ app importer
\* Each action is what the importer does in one turn of the event loop: from
\* the end of a request (or the firing of a timer) to the next request it
\* awaits, the promise reactions in between included.
\* the rest of the state stays as it is while the importer runs
HandleUnchanged ==
  UNCHANGED <<supply, internal, committed, classes, wrappers, stack, last, active,
              registry, handles, directory, resolved>>

\* the polls made so far, counted up to MaxPolls
CountPoll(n) == IF n < MaxPolls THEN n + 1 ELSE MaxPolls

\* the importer with call c replaced, and with the access token assigned too
SetCall(c, call) == [importer EXCEPT !.calls[c] = call]
SetToken(token, c, call) == [importer EXCEPT !.accessToken = token, !.calls[c] = call]

\* importApp rejects before createApp is called
Fails(call) == [call EXCEPT !.importApp = "rejected", !.at = "stopped"]

\* AppImporter.createApp, up to the request that creates the app: it throws
\* without an access token, which rejects importApp too; otherwise it awaits
\* the POST
CreateAppCall(call, accessToken) ==
  IF ~accessToken
    THEN [call EXCEPT !.createApp = "rejected", !.importApp = "rejected", !.at = "stopped"]
    ELSE [call EXCEPT !.createApp = "pending", !.at = "creating"]

\* AppImporter.importApp is called (for the c-th time): loadAppConfigJson
\* throws, or logIn sends the login request
importApp(c, config) ==
  /\ importer.calls[c].at = "not started"
  /\ c > 1 => importer.calls[c - 1].at /= "not started"
  /\ importer' = IF config = "fails"
                   THEN SetCall(c, Fails(importer.calls[c]))
                   ELSE SetCall(c, [importer.calls[c] EXCEPT !.importApp = "pending",
                                                             !.at = "logging in"])
  /\ HandleUnchanged

\* AppImporter.logIn, the login request has ended. A failed fetch, a body
\* that is not JSON or the body null rejects with the access token as it
\* was. Otherwise this.accessToken is assigned responseBody.access_token,
\* set or not (a body without the field unsets it); then saveStitchConfig
\* writes the file or throws; then getGroupId calls getProfile, which throws
\* without an access token and otherwise sends the profile request
logIn(c, response, saved) ==
  /\ importer.calls[c].at = "logging in"
  /\ importer' =
       IF response \in {"fails", "null"}
         THEN SetCall(c, Fails(importer.calls[c]))
       ELSE IF ~saved \/ response = "no token"
         THEN SetToken(response = "token", c, Fails(importer.calls[c]))
       ELSE SetToken(TRUE, c, [importer.calls[c] EXCEPT !.at = "getting profile"])
  /\ HandleUnchanged

\* AppImporter.getProfile and getGroupId, the profile request has ended: a
\* failed fetch, a response that is not ok and a profile that has not exactly
\* one role reject; otherwise createApp is called, with the access token as
\* it is now
getProfile(c, response) ==
  /\ importer.calls[c].at = "getting profile"
  /\ importer' = IF response = "one role"
                   THEN SetCall(c, CreateAppCall(importer.calls[c], importer.accessToken))
                   ELSE SetCall(c, Fails(importer.calls[c]))
  /\ HandleUnchanged

\* AppImporter.createApp, the POST has ended: a failed fetch, a response that
\* is not ok and an ok response whose body is not JSON reject; otherwise the
\* promise that polls is returned and the first timer is armed, with the
\* body as `data` (an app, or null)
createApp(c, response) ==
  /\ importer.calls[c].at = "creating"
  /\ importer' =
       IF response \in {"fails", "not ok"}
         THEN SetCall(c, [importer.calls[c] EXCEPT !.createApp = "rejected",
                                                   !.importApp = "rejected",
                                                   !.at = "stopped"])
         ELSE SetCall(c, [importer.calls[c] EXCEPT !.data = response,
                                                   !.at = "timer armed"])
  /\ HandleUnchanged

\* the timer of setTimeout(..., 1000) fires: getServices reads data._id, which
\* throws when data is null, and sends its request
timeout(c) ==
  /\ importer.calls[c].at = "timer armed"
  /\ importer' = IF importer.calls[c].data = "null"
                   THEN SetCall(c, [importer.calls[c] EXCEPT !.at = "stopped"])
                   ELSE SetCall(c, [importer.calls[c] EXCEPT !.at = "polling"])
  /\ HandleUnchanged

\* getServices with a failing request reported to the caller of createApp
getServices_rejects(c, response) ==
  /\ importer.calls[c].at = "polling"
  /\ importer' =
       IF response = "fails"
         THEN SetCall(c, [importer.calls[c] EXCEPT !.polls = CountPoll(@),
                            !.createApp = "rejected", !.importApp = "rejected",
                            !.at = "stopped"])
       ELSE IF Length(response) = "throws"
         THEN SetCall(c, [importer.calls[c] EXCEPT !.polls = CountPoll(@),
                            !.services = response, !.at = "stopped"])
       ELSE IF Length(response) = "falsy"
         THEN SetCall(c, [importer.calls[c] EXCEPT !.polls = CountPoll(@),
                            !.services = response, !.at = "timer armed"])
       ELSE IF FirstIdThrows(response)
         THEN SetCall(c, [importer.calls[c] EXCEPT !.polls = CountPoll(@),
                            !.services = response, !.at = "stopped"])
       ELSE SetCall(c, [importer.calls[c] EXCEPT !.polls = CountPoll(@),
                          !.services = response, !.at = "patching"])
  /\ HandleUnchanged

\* getServices, the services request has ended. A failed request ends
\* getServices with `services` as it was and nothing scheduled; so does a body
\* whose length cannot be read. `!services.length` arms the timer again,
\* whatever the number of polls made. A truthy length goes on to the PATCH,
\* unless reading services[0]._id throws, which ends getServices too.
getServices(c, response) ==
  /\ importer.calls[c].at = "polling"
  /\ importer' =
       IF response = "fails"
         THEN SetCall(c, [importer.calls[c] EXCEPT !.polls = CountPoll(@),
                            !.at = "stopped"])
       ELSE IF Length(response) = "throws"
         THEN SetCall(c, [importer.calls[c] EXCEPT !.polls = CountPoll(@),
                            !.services = response, !.at = "stopped"])
       ELSE IF Length(response) = "falsy"
         THEN SetCall(c, [importer.calls[c] EXCEPT !.polls = CountPoll(@),
                            !.services = response, !.at = "timer armed"])
       ELSE IF FirstIdThrows(response)
         THEN SetCall(c, [importer.calls[c] EXCEPT !.polls = CountPoll(@),
                            !.services = response, !.at = "stopped"])
       ELSE SetCall(c, [importer.calls[c] EXCEPT !.polls = CountPoll(@),
                          !.services = response, !.at = "patching"])
  /\ HandleUnchanged

\* getServices, the PATCH has ended: a response (of any status) resolves the
\* promise of createApp, a failed fetch ends getServices before resolve(data)
patch(c, response) ==
  /\ importer.calls[c].at = "patching"
  /\ importer' = IF response = "fails"
                   THEN SetCall(c, [importer.calls[c] EXCEPT !.at = "stopped"])
                   ELSE SetCall(c, [importer.calls[c] EXCEPT !.createApp = "resolved",
                                                             !.at = "stopped"])
  /\ HandleUnchanged

\* AppImporter.importApp after createApp has resolved: the secrets, the
\* template and the import either fail or return the app id
importApp_return(c, rest) ==
  /\ importer.calls[c].createApp = "resolved"
  /\ importer.calls[c].importApp = "pending"
  /\ importer' = SetCall(c, [importer.calls[c] EXCEPT
                               !.importApp = IF rest = "fails" THEN "rejected"
                                             ELSE "resolved"])
  /\ HandleUnchanged

\* The provisioning flow of the test harness against a server that answers
\* each request in any of the ways a request can end.
NextImporter ==
  \/ \E c \in 1..MaxCalls, config \in {"ok", "fails"} : importApp(c, config)
  \/ \E c \in 1..MaxCalls, response \in {"fails", "null", "token", "no token"},
        saved \in BOOLEAN : logIn(c, response, saved)
  \/ \E c \in 1..MaxCalls, response \in {"fails", "not ok", "one role", "other"} :
        getProfile(c, response)
  \/ \E c \in 1..MaxCalls, response \in {"fails", "not ok", "app", "null"} : createApp(c, response)
  \/ \E c \in 1..MaxCalls : timeout(c)
  \/ \E c \in 1..MaxCalls, response \in ServicesResponses : getServices(c, response)
  \/ \E c \in 1..MaxCalls, response \in {"fails", "ok"} : patch(c, response)
  \/ \E c \in 1..MaxCalls, rest \in {"ok", "fails"} : importApp_return(c, rest)

SpecImporter == Init /\ [][NextImporter]_vars

Next ==
  \/ beginTransaction
  \/ commitTransaction
  \/ cancelTransaction
  \/ write_begin
  \/ \E v \in Results : write_return(v)
  \/ \E e \in Raisable : write_catch(e)
  \/ close
  \/ \E a \in TxCreateArgs : create(a[1], a[2], a[3])
  \/ \E subject \in Subjects : delete(subject)
  \/ \E name \in TypeNames : deleteModel(name)
  \/ deleteAll
  \/ compact
  \/ \E config \in Configs : writeCopyTo(config)

Spec == Init /\ [][Next]_vars

\* The handle with MaxRows object keys, under explicit transactions: the
\* operations that create, find and remove rows.
InitData ==
  /\ internal = [isInTransaction |-> FALSE, isClosed |-> FALSE,
                 schema |-> Classes, schemaVersion |-> 0, tables |-> EmptyTables]
  /\ committed = [schema |-> Classes, schemaVersion |-> 0, tables |-> EmptyTables]
  /\ classes = Classes
  /\ wrappers = {}
  /\ stack = <<>>
  /\ last = Outcome("open", NoError, <<>>, NoResult)
  /\ active = 0
  /\ supply = MaxRows
  /\ ProcessInit

\* create with attached values and a mode the API accepts
DataCreateArgs == {a \in CreateArgs : ~a[2].detached /\ a[1] \in Classes /\ a[3] /= "bogus"}

NextData ==
  \/ beginTransaction
  \/ commitTransaction
  \/ cancelTransaction
  \/ \E a \in DataCreateArgs : create(a[1], a[2], a[3])
  \/ \E w \in wrappers : delete([kind |-> "object", items |-> <<w>>])
  \/ deleteAll
  \/ \E type \in Classes, primaryKey \in PKs : objectForPrimaryKey(type, primaryKey)

SpecData == InitData /\ [][NextData]_vars

\* The handle under explicit transactions: the operations that change the
\* schema, and the reads that resolve a class through the Class Map.
NextSchema ==
  \/ beginTransaction
  \/ commitTransaction
  \/ cancelTransaction
  \/ \E a \in DataCreateArgs : a[3] = "never" /\ create(a[1], a[2], a[3])
  \/ \E name \in TypeNames : deleteModel(name)
  \/ \E schema \in SchemaArgs : _updateSchema(schema)
  \/ \E type \in TypeNames : objects(type)

SpecSchema == Init /\ [][NextSchema]_vars

\* A handle opened with a schema that declares classes of every table type
\* (Dog, Cat top-level; Bone embedded; Log asymmetric), under the calls that
\* query a class by name.
InitQuery ==
  /\ internal = [isInTransaction |-> FALSE, isClosed |-> FALSE,
                 schema |-> AllClasses, schemaVersion |-> 0,
                 tables |-> [c \in AllClasses |-> {}]]
  /\ committed = [schema |-> AllClasses, schemaVersion |-> 0,
                  tables |-> [c \in AllClasses |-> {}]]
  /\ classes = AllClasses
  /\ wrappers = {}
  /\ stack = <<>>
  /\ last = Outcome("open", NoError, <<>>, NoResult)
  /\ active = 0
  /\ supply = MaxKey
  /\ ProcessInit

NextQuery ==
  \/ beginTransaction
  \/ commitTransaction
  \/ cancelTransaction
  \/ close
  \/ \E a \in DataCreateArgs : a[3] = "never" /\ create(a[1], a[2], a[3])
  \/ \E name \in QueryNames : deleteModel(name)
  \/ \E type \in QueryNames : objects(type)

SpecQuery == InitQuery /\ [][NextQuery]_vars

\* The handle over its whole life, from the constructor to after it is
\* closed, under every operation of the layer: transactions, write, the
\* object lifecycle, the schema operations, a read, close and the registry
\* sweep. Each operation is tried with one or two arguments of each shape.
HandleCreateArgs ==
  {<<"Dog", [pk |-> 1, val |-> 1, detached |-> FALSE], "never">>,
   <<"Cat", [pk |-> 1, val |-> NoVal, detached |-> FALSE], "never">>}

NextHandle ==
  \/ beginTransaction
  \/ commitTransaction
  \/ cancelTransaction
  \/ write_begin
  \/ \E v \in {"v1"} : write_return(v)
  \/ \E e \in Raisable : write_catch(e)
  \/ \E a \in HandleCreateArgs : create(a[1], a[2], a[3])
  \/ \E w \in wrappers : delete([kind |-> "object", items |-> <<w>>])
  \/ \E name \in TypeNames : deleteModel(name)
  \/ deleteAll
  \/ \E schema \in SchemaArgs : _updateSchema(schema)
  \/ \E type \in TypeNames : objects(type)
  \/ close
  \/ clearTestState

SpecHandle == Init /\ [][NextHandle]_vars

\* The handle in each of its states (Idle, InTransaction, closed) under every
\* call of create: the checks create makes on its arguments and on the handle.
NextCreate ==
  \/ beginTransaction
  \/ commitTransaction
  \/ close
  \/ \E a \in CreateArgs : create(a[1], a[2], a[3])

SpecCreate == Init /\ [][NextCreate]_vars

\* ------------------------------------------------------------ properties
Idle == ~internal.isInTransaction /\ ~internal.isClosed
SomeRow(tables) == \E c \in Classes : tables[c] /= {}
CallbackOwnsTransaction == InCallback /\ Top.own
\* a step inside a callback that keeps the transaction of its write() active
\* does not change the committed data
NoCommitInsideCallback == (stack' = stack) => (committed' = committed)

\* C1: for every callback that raises E, write(callback) re-raises exactly E
\* and the handle is Idle (isInTransaction = false) when write returns.
C1_WriteReraisesE ==
  (last.op = "write" /\ last.eng = <<"cancelTransaction">>)
    => (last.err = E /\ ~isInTransaction)

\* C2 (as stated): no partial commit, for every callback that performs
\* creates/deletes and then raises: no step taken while the callback runs
\* changes the committed data, and the catch block leaves the committed data
\* as it was, discards the pending writes, invokes cancelTransaction and
\* re-raises the failure.
C2_NoPartialCommitAnyCallback ==
  [][InCallback =>
       /\ (Len(stack') = Len(stack)) => (committed' = committed)
       /\ \A e \in Raisable : (last'.op = "write" /\ write_catch(e)) =>
            /\ committed' = committed
            /\ Data(internal') = committed
            /\ ~internal'.isInTransaction
            /\ last'.eng = <<"cancelTransaction">>
            /\ last'.err = e]_vars

\* C2 (amended): no partial commit, for every callback that performs
\* creates/deletes, does not itself end the transaction write began, and then
\* raises: the committed data stays what it was when write was called (no
\* step of the callback and not the catch block changes it), the pending
\* writes are discarded, and cancelTransaction is invoked before the failure
\* is re-raised.
C2_NoPartialCommit ==
  [][CallbackOwnsTransaction =>
       /\ NoCommitInsideCallback
       /\ \A e \in Raisable : (last'.op = "write" /\ write_catch(e)) =>
            /\ committed' = committed
            /\ Data(internal') = committed
            /\ ~internal'.isInTransaction
            /\ last'.eng = <<"cancelTransaction">>
            /\ last'.err = e]_vars
C2_Witness ==
  /\ last.op = "write" /\ last.err = E /\ last.dirty
  /\ wrappers /= {} /\ ~SomeRow(committed.tables) /\ ~SomeRow(internal.tables)

\* C3 (as claimed): for every callback that returns v without raising, write
\* commits, returns v and leaves the handle Idle.
C3_WriteReturnsV ==
  (last.op = "write" /\ last.eng = <<"commitTransaction">>)
    => (last.err = NoError /\ last.val \in Results /\ ~isInTransaction)
\* C3 (amended): for every callback that returns v without raising and has
\* not itself ended the transaction write began, no commit happens while the
\* callback runs, write then commits once, returns v, and leaves the handle
\* Idle with all of the callback's writes committed. When no transaction is
\* active as the callback returns, the commit of write fails: write raises
\* instead of returning v and the committed data stays as it is.
C3_WriteCommitsOwnTransaction ==
  [][/\ CallbackOwnsTransaction =>
          /\ NoCommitInsideCallback
          /\ \A v \in Results : (last'.op = "write" /\ write_return(v)) =>
               /\ last'.err = NoError
               /\ last'.val = v
               /\ last'.eng = <<"commitTransaction">>
               /\ committed' = Data(internal)
               /\ Data(internal') = Data(internal)
               /\ ~internal'.isInTransaction /\ ~internal'.isClosed
     /\ (InCallback /\ ~internal.isInTransaction) =>
          \A v \in Results : (last'.op = "write" /\ write_return(v)) =>
            /\ last'.err = IllegalStateError
            /\ last'.val = NoResult
            /\ last'.eng = <<"commitTransaction">>
            /\ committed' = committed
            /\ internal' = internal]_vars
C3_Witness ==
  /\ last.op = "write" /\ last.err = NoError /\ last.val = "v2" /\ last.dirty
  /\ SomeRow(committed.tables) /\ Idle

\* C4: beginTransaction() on an Idle handle moves it to InTransaction; on a
\* handle that is already InTransaction it fails with IllegalStateError and
\* leaves the handle InTransaction with its pending writes unchanged.
C4_BeginTransaction ==
  [][last'.op = "beginTransaction" =>
       IF internal.isInTransaction
         THEN last'.err = IllegalStateError /\ internal' = internal /\ committed' = committed
         ELSE ~internal.isClosed =>
                /\ last'.err = NoError
                /\ internal'.isInTransaction
                /\ Data(internal') = Data(internal) /\ committed' = committed]_vars
C4_Witness ==
  /\ last.op = "beginTransaction" /\ last.err = IllegalStateError
  /\ isInTransaction /\ Pending

\* C5: commitTransaction() and cancelTransaction() on an Idle handle fail and
\* leave the handle Idle with the committed data unchanged; in InTransaction
\* each moves the handle to Idle.
C5_CommitCancel ==
  [][last'.op \in {"commitTransaction", "cancelTransaction"} =>
       IF internal.isInTransaction
         THEN last'.err = NoError /\ ~internal'.isInTransaction /\ ~internal'.isClosed
         ELSE ~internal.isClosed =>
                /\ last'.err /= NoError
                /\ internal' = internal /\ committed' = committed]_vars
C5_Witness ==
  /\ last.op = "commitTransaction" /\ last.err /= NoError
  /\ Idle /\ SomeRow(committed.tables)

\* C6: cancelTransaction() discards all pending writes: the rows visible
\* after the cancel are the rows visible just before beginTransaction().  The
\* rows visible when a transaction begins are the committed rows, no create /
\* delete / deleteAll changes the committed rows, and a cancel makes the
\* committed rows the visible ones.
C6_CancelDiscards ==
  [][/\ (last'.op \in {"beginTransaction", "write_begin"} /\ last'.err = NoError)
          => (internal.tables = committed.tables /\ committed' = committed)
     /\ last'.op \in {"create", "delete", "deleteAll"}
          => committed' = committed
     /\ (last'.op = "cancelTransaction" /\ last'.err = NoError)
          => (internal'.tables = committed.tables /\ committed' = committed)]_vars
C6_Witness ==
  /\ last.op = "cancelTransaction" /\ last.err = NoError /\ last.dirty
  /\ internal.tables = committed.tables /\ SomeRow(committed.tables)

\* C7: single active transaction: on an open handle the number of calls that
\* began a transaction minus the number that ended one is 0 or 1, and it is 1
\* exactly when isInTransaction is true.
C7_SingleActiveTransaction ==
  ~isClosed => (active \in {0, 1} /\ (active = 1 <=> isInTransaction))
C7_Witness ==
  active = 1 /\ isInTransaction /\ InCallback /\ ~Top.own /\ ~isClosed

\* C8: compact() and writeCopyTo(config) called InTransaction fail with
\* IllegalStateError before the engine's compact / convert is invoked and
\* leave the transaction active with its pending writes unchanged; called
\* outside a transaction they reach the engine (writeCopyTo: once the
\* configuration has passed validation).
C8_OutsideTransactionOnly ==
  [][/\ (last'.op \in {"compact", "writeCopyTo"} /\ internal.isInTransaction) =>
          /\ last'.err = IllegalStateError /\ last'.eng = <<>>
          /\ internal' = internal /\ committed' = committed
     /\ (last'.op = "compact" /\ ~internal.isInTransaction) => last'.eng = <<"compact">>
     /\ \A config \in Configs :
          (last'.op = "writeCopyTo" /\ writeCopyTo(config) /\ ~internal.isInTransaction
             /\ ValidateConfigurationError(config) = NoError)
          => last'.eng = <<"convert">>]_vars
C8_Witness ==
  /\ last.op = "compact" /\ last.err = IllegalStateError /\ last.eng = <<>>
  /\ isInTransaction /\ Pending

\* C9: delete(subject), deleteModel(name) and deleteAll() called while the
\* handle is not in a transaction fail with IllegalStateError, whatever the
\* subject, before any other check and any engine call, and remove no row
\* and change no schema.
C9_DeleteNeedsTransaction ==
  [][(last'.op \in {"delete", "deleteModel", "deleteAll"} /\ ~internal.isInTransaction)
       => /\ last'.err = IllegalStateError /\ last'.eng = <<>>
          /\ internal' = internal /\ committed' = committed /\ classes' = classes]_vars
C9_Witness ==
  /\ last.op = "delete" /\ last.err = IllegalStateError
  /\ Idle /\ SomeRow(internal.tables)

\* C10: delete(obj) of a single typed object inside a transaction: an object
\* whose row is gone fails with InvalidatedObjectError and nothing is removed;
\* for an attached object exactly its row is removed, every other row is
\* unchanged, and the object is invalid afterwards (a second delete fails).
C10_DeleteSingleObject ==
  [][\A w \in wrappers :
       (last'.op = "delete" /\ internal.isInTransaction
          /\ delete([kind |-> "object", items |-> <<w>>])) =>
         IF ObjIsValid(internal, w)
           THEN /\ last'.err = NoError
                /\ internal' = [internal EXCEPT !.tables[w.class] = {r \in @ : r.key /= w.key}]
                /\ internal'.tables /= internal.tables
                /\ ~ObjIsValid(internal', w)
           ELSE /\ last'.err = InvalidatedObjectError
                /\ internal' = internal]_vars
C10_Witness ==
  /\ last.op = "delete" /\ last.err = InvalidatedObjectError
  /\ isInTransaction /\ Cardinality(wrappers) = 2
  /\ \E w \in wrappers : ~ObjIsValid(internal, w)
  /\ \E w \in wrappers : ObjIsValid(internal, w)

\* an item of the sequence has no row when its turn comes: it is invalid
\* already, or it is listed a second time
HasInvalidItem(h, items) ==
  \E i \in 1..Len(items) :
    \/ ~ObjIsValid(h, items[i])
    \/ \E j \in 1..(i - 1) : items[j] = items[i]

\* C11: delete(sequence) of an ordered sequence of typed objects inside a
\* transaction checks every item to be still attached before it is removed: a
\* sequence with an invalidated object (one listed twice, or one deleted
\* earlier in the transaction) fails with InvalidatedObjectError.
C11_SequenceValidatesEachItem ==
  [][\A s \in Subjects :
       (last'.op = "delete" /\ internal.isInTransaction /\ s.kind = "array"
          /\ HasInvalidItem(internal, s.items) /\ delete(s))
       => last'.err = InvalidatedObjectError]_vars

\* C12: deleteModel(name) inside a transaction, for a class of the handle's
\* schema, removes all rows of that class, leaves the schema minus exactly
\* that class with every other class and its rows unchanged, and increases
\* the schema version by exactly one; the transaction stays active and
\* nothing is committed.
C12_DeleteModel ==
  [][\A name \in Classes :
       (last'.op = "deleteModel" /\ internal.isInTransaction
          /\ name \in internal.schema /\ deleteModel(name))
       => /\ last'.err = NoError
          /\ internal'.schema = internal.schema \ {name}
          /\ internal'.tables[name] = {}
          /\ \A c \in Classes \ {name} : internal'.tables[c] = internal.tables[c]
          /\ internal'.schemaVersion = internal.schemaVersion + 1
          /\ internal'.isInTransaction /\ committed' = committed]_vars
C12_Witness ==
  /\ last.op = "deleteModel" /\ last.err = NoError
  /\ committed.tables["Dog"] /= {} /\ internal.tables["Dog"] = {}
  /\ internal.schema = {"Cat"} /\ committed.schema = Classes
  /\ internal.schemaVersion = committed.schemaVersion + 1

\* C13: the Class Map is never stale: after every call that updates the
\* handle's schema (deleteModel, _updateSchema) the class names getHelpers
\* resolves are the classes of the handle's schema, and objects(name) for a
\* class that deleteModel has removed fails with ClassNotFoundError.
C13_ClassMapNeverStale ==
  [][/\ (last'.op \in {"deleteModel", "_updateSchema"} /\ last'.err = NoError)
          => classes' = internal'.schema
     /\ \A name \in Classes :
          (last'.op = "objects" /\ internal.isInTransaction
             /\ name \notin internal.schema /\ objects(name))
          => last'.err = ClassNotFoundError]_vars

\* C14: deleteAll() inside a transaction leaves every table of the current
\* schema with zero rows and leaves the schema, the schema version, the
\* Class Map and the transaction state unchanged (nothing is committed).
C14_DeleteAll ==
  [][(last'.op = "deleteAll" /\ internal.isInTransaction)
       => /\ last'.err = NoError
          /\ \A c \in internal.schema : internal'.tables[c] = {}
          /\ internal'.schema = internal.schema
          /\ internal'.schemaVersion = internal.schemaVersion
          /\ classes' = classes
          /\ internal'.isInTransaction /\ ~internal'.isClosed
          /\ committed' = committed /\ active' = active]_vars
C14_Witness ==
  /\ last.op = "deleteAll" /\ last.err = NoError /\ isInTransaction
  /\ committed.tables["Dog"] /= {} /\ committed.tables["Cat"] /= {}
  /\ ~SomeRow(internal.tables) /\ classes = Classes /\ internal.schema = Classes

\* no two rows of a table with a primary key hold the same primary key
PrimaryKeysUnique(tables) ==
  \A c \in Classes : HasPrimaryKey(c) =>
    \A r1, r2 \in tables[c] : r1.pk = r2.pk => r1 = r2
\* what a property of the values reads as once stored by an insert or by All
Stored(v) == IF v = NoVal THEN DefaultVal ELSE v

\* C15: primary-key uniqueness: in every reachable state no table holds two
\* rows with the same primary key (pending and committed rows alike), and
\* create(type, values, Never) with a primary key that is in the table fails
\* with the engine's duplicate-key error and leaves the rows unchanged.
C15_PrimaryKeyUnique ==
  /\ [](PrimaryKeysUnique(internal.tables) /\ PrimaryKeysUnique(committed.tables))
  /\ [][\A type \in Classes, values \in Values :
          (last'.op = "create" /\ internal.isInTransaction
             /\ ~values.detached /\ HasPrimaryKey(type)
             /\ RowsWithPk(internal, type, values.pk) /= {}
             /\ create(type, values, "never"))
          => /\ last'.err = DuplicateKeyError
             /\ internal' = internal /\ wrappers' = wrappers
             /\ committed' = committed]_vars
C15_Witness ==
  /\ last.op = "create" /\ last.err = DuplicateKeyError
  /\ Cardinality(internal.tables["Dog"]) = 2 /\ isInTransaction

\* C16: idempotence of upsert: create(type, values, All) for a class with a
\* primary key leaves exactly one row with that key, holding those values
\* (the declared default for an omitted property); a second call with the
\* same key and values changes nothing, and mode = true behaves as All.
C16_UpsertIdempotent ==
  [][\A type \in Classes, values \in Values :
       (last'.op = "create" /\ internal.isInTransaction
          /\ ~values.detached /\ HasPrimaryKey(type)
          /\ create(type, values, "all"))
       => LET row == [pk |-> values.pk, val |-> Stored(values.val)]
              had == {[pk |-> r.pk, val |-> r.val] : r \in RowsWithPk(internal, type, values.pk)}
          IN /\ last'.err = NoError
             /\ Cardinality(RowsWithPk(internal', type, values.pk)) = 1
             /\ \A r \in RowsWithPk(internal', type, values.pk) : r.val = row.val
             /\ internal'.tables[type] \ RowsWithPk(internal', type, values.pk)
                  = internal.tables[type] \ RowsWithPk(internal, type, values.pk)
             /\ had = {row} => (internal' = internal /\ wrappers' = wrappers)
             /\ ObjectCreate(internal', type, values, "all", nextKey') = internal'
             /\ create(type, values, "true")]_vars
C16_Witness ==
  /\ last.op = "create" /\ last.err = NoError /\ last.eng = <<"verifyOpen", "create(all)">>
  /\ isInTransaction /\ Cardinality(wrappers) = 1
  /\ committed.tables["Dog"] /= {} /\ Data(internal) = committed

\* C17: round trip: after create(type, values, Never) succeeds for a class
\* with a primary key, the lookup of that key finds one row whose properties
\* are the input values, with the declared default for an omitted property;
\* objectForPrimaryKey returns what the lookup finds, and a commit leaves
\* every row as it is, so the same holds after the transaction is committed.
C17_CreateThenLookup ==
  [][/\ \A type \in Classes, values \in Values, modeArg \in {"never", "undefined"} :
          (last'.op = "create" /\ last'.err = NoError
             /\ ~values.detached /\ HasPrimaryKey(type)
             /\ create(type, values, modeArg))
          => {[pk |-> r.pk, val |-> r.val] : r \in FindPrimaryKey(internal', type, values.pk)}
               = {[pk |-> values.pk, val |-> Stored(values.val)]}
     /\ \A type \in Classes, primaryKey \in PKs :
          (last'.op = "objectForPrimaryKey" /\ HasPrimaryKey(type)
             /\ objectForPrimaryKey(type, primaryKey))
          => (last'.err = NoError
              /\ last'.rows = {r \in internal.tables[type] : r.pk = primaryKey})
     /\ (last'.op = "commitTransaction" /\ last'.err = NoError)
          => (internal'.tables = internal.tables /\ committed'.tables = internal.tables)]_vars
C17_Witness ==
  /\ last.op = "objectForPrimaryKey" /\ last.err = NoError
  /\ last.val = AnObject /\ \E r \in last.rows : r.pk = 2 /\ r.val = DefaultVal
  /\ ~isInTransaction /\ Data(internal) = committed
  /\ Cardinality(internal.tables["Dog"]) = 2

\* the mode the lifecycle manager is to receive for what the caller passed
ExpectedMode(modeArg) ==
  IF modeArg = "true" THEN "all"
  ELSE IF modeArg \in {"false", "undefined"} THEN "never"
  ELSE modeArg

\* C18 (as claimed): create normalizes the mode first (true is All, false and
\* an omitted mode are Never); every mode that is then none of Never,
\* Modified, All fails with InvalidArgumentError before any engine call, so
\* no row is created or changed; RealmObject.create only ever receives one
\* of the three modes.
C18_ModeValidated ==
  [][\A type \in TypeNames, values \in Values, modeArg \in ModeArgs :
       (last'.op = "create" /\ <<type, values, modeArg>> \in CreateArgs
          /\ create(type, values, modeArg))
       => /\ ExpectedMode(modeArg) \notin UpdateMode
               => /\ last'.err = InvalidArgumentError /\ last'.eng = <<>>
                  /\ internal' = internal /\ wrappers' = wrappers /\ committed' = committed
          /\ ExpectedMode(modeArg) \in UpdateMode => last'.err /= InvalidArgumentError
          /\ Len(last'.eng) = 2
               => /\ ExpectedMode(modeArg) \in UpdateMode
                  /\ last'.eng[2] = CreateCall(ExpectedMode(modeArg))]_vars
\* C18 (amended): the same, except that the check for a detached typed object
\* comes before the check of the mode: with detached values create fails with
\* the detached-object failure whatever the mode is; in both cases no engine
\* call is made and no row is created or changed.
C18_ModeValidatedAfterDetached ==
  [][\A type \in TypeNames, values \in Values, modeArg \in ModeArgs :
       (last'.op = "create" /\ <<type, values, modeArg>> \in CreateArgs
          /\ create(type, values, modeArg))
       => /\ ExpectedMode(modeArg) \notin UpdateMode
               => /\ last'.err = IF values.detached THEN DetachedObjectError
                                 ELSE InvalidArgumentError
                  /\ last'.eng = <<>>
                  /\ internal' = internal /\ wrappers' = wrappers /\ committed' = committed
          /\ ExpectedMode(modeArg) \in UpdateMode => last'.err /= InvalidArgumentError
          /\ Len(last'.eng) = 2
               => /\ ExpectedMode(modeArg) \in UpdateMode
                  /\ last'.eng[2] = CreateCall(ExpectedMode(modeArg))]_vars
C18_Witness ==
  /\ last.op = "create" /\ last.err = InvalidArgumentError /\ last.eng = <<>>
  /\ isInTransaction /\ SomeRow(internal.tables)

\* C19 (as claimed): create on a closed handle fails with IllegalStateError
\* and creates no row, for every type and every valid mode; the open check
\* comes before the class helpers are resolved and before the row is created.
C19_CreateOnClosed ==
  [][\A type \in TypeNames, values \in Values, modeArg \in ModeArgs :
       (last'.op = "create" /\ internal.isClosed
          /\ ExpectedMode(modeArg) \in UpdateMode
          /\ <<type, values, modeArg>> \in CreateArgs /\ create(type, values, modeArg))
       => /\ last'.err = IllegalStateError /\ last'.eng = <<"verifyOpen">>
          /\ internal' = internal /\ wrappers' = wrappers /\ committed' = committed]_vars
\* C19 (amended): the same for values that are not a detached typed object;
\* with detached values create fails with the detached-object failure before
\* the open check is made, and creates no row either.
C19_CreateOnClosedAfterDetached ==
  [][\A type \in TypeNames, values \in Values, modeArg \in ModeArgs :
       (last'.op = "create" /\ internal.isClosed
          /\ ExpectedMode(modeArg) \in UpdateMode
          /\ <<type, values, modeArg>> \in CreateArgs /\ create(type, values, modeArg))
       => /\ IF values.detached
               THEN last'.err = DetachedObjectError /\ last'.eng = <<>>
               ELSE last'.err = IllegalStateError /\ last'.eng = <<"verifyOpen">>
          /\ internal' = internal /\ wrappers' = wrappers /\ committed' = committed]_vars
C19_Witness ==
  /\ last.op = "create" /\ last.err = IllegalStateError /\ last.eng = <<"verifyOpen">>
  /\ isClosed /\ SomeRow(committed.tables)

\* C20: objectForPrimaryKey(type, key) on an open handle, for a class of the
\* schema: fails with SchemaMismatchError, before any table lookup, when the
\* class declares no primary key; returns undefined when no row has that
\* key; otherwise returns the one row whose primary key is key.  It changes
\* no row, no schema and no transaction state.
C20_ObjectForPrimaryKey ==
  [][\A type \in Classes, primaryKey \in PKs :
       (last'.op = "objectForPrimaryKey" /\ ~internal.isClosed
          /\ type \in internal.schema /\ objectForPrimaryKey(type, primaryKey))
       => /\ IF ~HasPrimaryKey(type)
               THEN last'.err = SchemaMismatchError /\ last'.eng = <<>>
               ELSE /\ last'.err = NoError
                    /\ last'.rows = {r \in internal.tables[type] : r.pk = primaryKey}
                    /\ Cardinality(last'.rows) <= 1
                    /\ last'.val = IF last'.rows = {} THEN NoResult ELSE AnObject
          /\ internal' = internal /\ committed' = committed
          /\ classes' = classes /\ wrappers' = wrappers /\ active' = active]_vars
C20_Witness ==
  /\ last.op = "objectForPrimaryKey" /\ last.err = NoError
  /\ last.val = NoResult /\ last.rows = {}
  /\ internal.tables["Dog"] /= {} /\ isInTransaction


\* C21: objects(type) fails with UnsupportedOperationError for every class of
\* the handle's schema whose table type is Embedded or TopLevelAsymmetric,
\* fails with ClassNotFoundError for a name that is not a class of the
\* handle's schema, and for a TopLevel class of an open handle returns a view
\* over the full table; in every case it changes no row and no transaction
\* state.
C21_Objects ==
  [][\A type \in QueryNames :
       (last'.op = "objects" /\ objects(type))
       => /\ (type \in internal.schema
                /\ TableType(type) \in {Embedded, TopLevelAsymmetric})
               => last'.err = UnsupportedOperationError
          /\ type \notin internal.schema => last'.err = ClassNotFoundError
          /\ (type \in internal.schema /\ TableType(type) = TopLevel
                /\ ~internal.isClosed)
               => /\ last'.err = NoError
                  /\ last'.val = SomeResults
                  /\ last'.rows = internal.tables[type]
          /\ internal' = internal /\ committed' = committed
          /\ wrappers' = wrappers /\ stack' = stack /\ active' = active]_vars


\* the number of close calls a sweep has made
Closes(eng) == Cardinality({k \in 1..Len(eng) : eng[k] = "close"})

\* C22: after clearTestState returns, every handle of the registry that
\* still resolves is closed, the handles that were already closed are not
\* closed a second time (the sweep makes one close call for each handle that
\* resolves and is not closed, and no other), and the registry is empty; a
\* second sweep with no open in between closes nothing and does not fail.
C22_SweepClosesRegistered ==
  [][(last'.op = "clearTestState" /\ clearTestState)
     => /\ last'.err = NoError
        /\ \A i \in registry \cap OtherHandles :
             handles[i] /= Collected => handles'[i] = Closed
        /\ Self \in registry => internal'.isClosed
        /\ Closes(last'.eng) =
             Cardinality({i \in registry \cap OtherHandles : handles[i] = Open})
               + (IF Self \in registry /\ ~internal.isClosed THEN 1 ELSE 0)
        /\ \A i \in OtherHandles :
             (i \notin registry \/ handles[i] /= Open) => handles'[i] = handles[i]
        /\ registry' = {}
        /\ last.op = "clearTestState"
             => /\ Closes(last'.eng) = 0
                /\ handles' = handles /\ internal' = internal]_vars
C22_Witness ==
  /\ last.op = "clearTestState" /\ last.err = NoError
  /\ Closes(last.eng) = 2
  /\ registry = {}
  /\ internal.isClosed /\ handles[1] = Closed /\ handles[2] = Collected


\* the file-name suffixes of a database as the claim lists them (the primary
\* file, its note and lock files) and as the sweep tests them (log files too)
ClaimedFileSuffixes == {<<"realm">>, <<"realm", "note">>, <<"realm", "lock">>}
DatabaseFileSuffixes == ClaimedFileSuffixes \cup {<<"realm", "log">>}
ManagementSuffix == <<"realm", "management">>
\* what the claim says of an entry, for a set of file suffixes
CarriesDatabaseSuffix(e, suffixes) ==
  \/ ~e.isDirectory /\ \E suffix \in suffixes : EndsWith(e.name, suffix)
  \/ e.isDirectory /\ EndsWith(e.name, ManagementSuffix)
CarriesNoSuffix(e, suffixes) ==
  \A suffix \in suffixes \cup {ManagementSuffix} : ~EndsWith(e.name, suffix)

\* C23 (as stated): clearTestState does not fail when the default directory
\* holds no database files; it removes every entry of the default directory
\* that carries a recognized database suffix (the primary file, its note /
\* lock files, management directories), and it leaves every entry without a
\* recognized suffix untouched.
C23_SweepRemovesListedSuffixes ==
  [][(last'.op = "clearTestState" /\ clearTestState)
     => /\ last'.err = NoError
        /\ directory' \subseteq directory
        /\ \A e \in directory :
             /\ CarriesDatabaseSuffix(e, ClaimedFileSuffixes) => e \notin directory'
             /\ CarriesNoSuffix(e, ClaimedFileSuffixes) => e \in directory']_vars

\* C23 (amended): clearTestState does not fail when the default directory
\* holds no database files; it removes every entry of the default directory
\* that carries a recognized database suffix (the primary file, its note /
\* lock / log files, management directories), and it leaves every entry
\* without a recognized suffix untouched.
C23_SweepRemovesDatabaseFiles ==
  [][(last'.op = "clearTestState" /\ clearTestState)
     => /\ last'.err = NoError
        /\ directory' \subseteq directory
        /\ \A e \in directory :
             /\ CarriesDatabaseSuffix(e, DatabaseFileSuffixes) => e \notin directory'
             /\ CarriesNoSuffix(e, DatabaseFileSuffixes) => e \in directory']_vars
C23_Witness ==
  /\ last.op = "clearTestState" /\ last.err = NoError
  /\ \E k \in 1..Len(last.eng) : last.eng[k] = "removeFile"
  /\ \E k \in 1..Len(last.eng) : last.eng[k] = "removeDirectory"
  /\ directory = OtherEntries


\* C24: opening a handle with a configuration that sets readOnly and
\* deleteRealmIfMigrationNeeded together fails with ConfigurationError
\* without reaching the storage engine and registers no handle; with at most
\* one of the two set, the schema mode handed to the engine is Immutable for
\* readOnly, ResetFile for deleteRealmIfMigrationNeeded, and unset otherwise.
C24_ExclusiveFlags ==
  [][last'.op = "open" => \A config \in OpenConfigs :
       open(config)
       => /\ (config.readOnly /\ config.deleteRealmIfMigrationNeeded)
               => /\ last'.err = ConfigurationError
                  /\ last'.eng = <<>>
                  /\ registry' = registry /\ handles' = handles
                  /\ directory' = directory
          /\ (~(config.readOnly /\ config.deleteRealmIfMigrationNeeded)
                /\ last'.err = NoError)
               => /\ last'.eng = <<"getSharedRealm">>
                  /\ config.readOnly => last'.val = "Immutable"
                  /\ config.deleteRealmIfMigrationNeeded => last'.val = "ResetFile"
                  /\ (~config.readOnly /\ ~config.deleteRealmIfMigrationNeeded)
                       => last'.val = NoResult
                  /\ Cardinality(registry') = Cardinality(registry) + 1]_vars
C24_Witness ==
  /\ last.op = "open" /\ last.err = ConfigurationError /\ last.eng = <<>>
  /\ handles[1] = Open /\ handles[2] = Unused /\ registry = {Self, 1}


\* C25: determinePath is total over its three input shapes and fails only on
\* the empty string: for a relative non-empty path p it returns the default
\* directory joined with p, for an absolute p it returns p unchanged, for an
\* absent path it returns the default file name joined with the default
\* directory, and for the path "" it fails.
C25_DeterminePath ==
  [][last'.op = "determinePath" => \A config \in PathConfigs :
       determinePath(config)
       => /\ "path" \notin DOMAIN config
               => /\ last'.err = NoError
                  /\ resolved' = <<Root, <<"home">>, <<"default", "realm">>>>
          /\ ("path" \in DOMAIN config /\ config.path = <<>>)
               => last'.err /= NoError
          /\ ("path" \in DOMAIN config /\ config.path /= <<>>
                /\ config.path[1] = Root)
               => last'.err = NoError /\ resolved' = config.path
          /\ ("path" \in DOMAIN config /\ config.path /= <<>>
                /\ config.path[1] /= Root)
               => /\ last'.err = NoError
                  /\ resolved' = <<Root, <<"home">>>> \o config.path
          /\ last'.err /= NoError
               => "path" \in DOMAIN config /\ config.path = <<>>]_vars
C25_Witness ==
  /\ last.op = "determinePath" /\ last.err = NoError
  /\ resolved = <<Root, <<"home">>, <<"a", "realm">>>>


\* C26: write re-raises the original failure also when the callback has
\* itself ended the transaction: for a callback that calls
\* commitTransaction() or cancelTransaction() and then raises E,
\* write(callback) re-raises E and leaves the handle Idle.
C26_WriteReraisesOriginal ==
  [][\A e \in Raisable :
       (last'.op = "write" /\ InCallback /\ ~Top.own /\ write_catch(e))
       => (last'.err = e /\ ~internal'.isInTransaction)]_vars


\* C27: write(callback) called while the handle is already InTransaction (a
\* nested write inside a write callback, or after beginTransaction) fails at
\* its begin step without invoking the callback and without cancelling or
\* committing the active transaction: the transaction stays active with its
\* pending writes intact and still belongs to its owner.
C27_NoReentrancy ==
  [][(last'.op = "write" /\ internal.isInTransaction /\ write_begin)
     => /\ last'.err = IllegalStateError
        /\ last'.eng = <<"beginTransaction">>
        /\ stack' = stack
        /\ internal' = internal /\ internal'.isInTransaction
        /\ committed' = committed
        /\ wrappers' = wrappers /\ active' = active]_vars
C27_Witness ==
  /\ last.op = "write" /\ last.err = IllegalStateError
  /\ last.eng = <<"beginTransaction">>
  /\ InCallback /\ Top.own /\ Pending


\* a call of deleteModel or _updateSchema has succeeded in this step
SchemaCallSucceeds == last'.op \in {"deleteModel", "_updateSchema"} /\ last'.err = NoError

\* C28 (as stated): over every sequence of operations on an open handle the
\* value read from schemaVersion never decreases, and it increases only
\* through deleteModel and _updateSchema, each by exactly one per successful
\* call.
C28_VersionMonotonic ==
  [][~internal.isClosed
     => /\ internal'.schemaVersion >= internal.schemaVersion
        /\ internal'.schemaVersion > internal.schemaVersion => SchemaCallSucceeds
        /\ SchemaCallSucceeds
             => internal'.schemaVersion = internal.schemaVersion + 1]_vars

\* C28 (amended): the committed schema version never decreases; the value
\* read from schemaVersion increases only through deleteModel and
\* _updateSchema, by exactly one per successful call; it decreases only when
\* the active transaction is rolled back (cancelTransaction, the automatic
\* cancel of write, close or the sweep), which restores the committed version;
\* outside a transaction it is the committed version.
C28_VersionMonotonicUntilRollback ==
  /\ [](~internal.isInTransaction => internal.schemaVersion = committed.schemaVersion)
  /\ [][/\ committed'.schemaVersion >= committed.schemaVersion
        /\ internal'.schemaVersion > internal.schemaVersion => SchemaCallSucceeds
        /\ SchemaCallSucceeds
             => internal'.schemaVersion = internal.schemaVersion + 1
        /\ internal'.schemaVersion < internal.schemaVersion
             => /\ internal.isInTransaction /\ ~internal'.isInTransaction
                /\ last'.op \in {"cancelTransaction", "write", "close", "clearTestState"}
                /\ committed' = committed
                /\ internal'.schemaVersion = committed.schemaVersion]_vars
C28_Witness ==
  /\ last.op = "cancelTransaction" /\ last.err = NoError
  /\ internal.schemaVersion = 1 /\ committed.schemaVersion = 1
  /\ internal.schema = {"Cat"} /\ classes = {}


\* C29: closed is a terminal state of a handle: once close() has been called
\* (explicitly or by the registry sweep) isClosed stays true; no operation
\* reopens the handle or starts a transaction on it, and no row or schema
\* change is made through it afterwards. Before that, the handle goes from
\* open to in-transaction and back any number of times, and a close (or a
\* sweep that finds the handle registered) always ends closed.
C29_ClosedIsTerminal ==
  /\ [](internal.isClosed => ~internal.isInTransaction)
  /\ [][/\ internal.isClosed
             => /\ internal'.isClosed
                /\ ~internal'.isInTransaction
                /\ Data(internal') = Data(internal)
                /\ committed' = committed
                /\ last'.op \in {"beginTransaction", "write", "create", "delete",
                                 "deleteModel", "deleteAll", "_updateSchema"}
                     => last'.err /= NoError
        /\ (last'.op = "close" \/ (last'.op = "clearTestState" /\ Self \in registry))
             => internal'.isClosed]_vars
C29_Witness ==
  /\ internal.isClosed /\ registry = {}
  /\ last.op = "beginTransaction" /\ last.err = IllegalStateError
  /\ committed.schemaVersion = 1 /\ SomeRow(committed.tables)


\* C30: deleteModel(name) for a name that is not a class of the handle's
\* schema fails with an error and leaves the schema, the schema version and
\* all rows unchanged: no version bump happens on the failing path.
C30_DeleteModelUnknown ==
  [][last'.op = "deleteModel" => \A name \in TypeNames :
       (name \notin internal.schema /\ deleteModel(name))
       => /\ last'.err /= NoError
          /\ "updateSchema" \notin {last'.eng[k] : k \in 1..Len(last'.eng)}
          /\ internal'.schema = internal.schema
          /\ internal'.schemaVersion = internal.schemaVersion
          /\ internal'.tables = internal.tables
          /\ committed' = committed /\ classes' = classes]_vars
C30_Witness ==
  /\ last.op = "deleteModel" /\ last.err = NoSuchTableError
  /\ last.eng = <<"deleteDataForObject">>
  /\ isInTransaction /\ internal.schema = {"Cat"} /\ internal.schemaVersion = 1
  /\ internal.tables["Cat"] /= {}


\* C31: _updateSchema(schema) changes the handle's schema only inside a
\* transaction: called while Idle it fails and leaves the schema, the schema
\* version and the Class Map unchanged; an invalid schema fails with the
\* validation error before the transaction state is examined and before any
\* engine call; on success inside a transaction the version increases by one
\* and a Class Map built from the new schema replaces the old one.
C31_UpdateSchema ==
  [][last'.op = "_updateSchema" => \A schema \in SchemaArgs :
       _updateSchema(schema)
       => /\ ~schema.valid
               => /\ last'.err = SchemaValidationError
                  /\ last'.eng = <<>>
          /\ (schema.valid /\ ~internal.isInTransaction)
               => /\ last'.err = IllegalStateError
                  /\ last'.eng = <<>>
          /\ last'.err /= NoError
               => /\ internal' = internal /\ classes' = classes
                  /\ committed' = committed
          /\ (schema.valid /\ internal.isInTransaction)
               => /\ last'.err = NoError
                  /\ last'.eng = <<"updateSchema">>
                  /\ internal'.schemaVersion = internal.schemaVersion + 1
                  /\ internal'.schema = schema.names
                  /\ classes' = schema.names
                  /\ internal'.isInTransaction
                  /\ committed' = committed]_vars
C31_Witness ==
  /\ last.op = "_updateSchema" /\ last.err = NoError
  /\ isInTransaction
  /\ classes = {"Dog"} /\ internal.schema = {"Dog"}
  /\ internal.schemaVersion = 2 /\ committed.schemaVersion = 1
  /\ committed.schema = {"Cat"}


\* the polling of call c has begun: the app is created and the promise that
\* polls has been returned
PollingBegun(c) == importer.calls[c].data /= "none"
\* the last poll of call c returned a value the PATCH follows
Patchable(c) == importer.calls[c].services \in {"[service]", "text"}

\* C32 (as stated): the promise of createApp settles only if some poll has
\* returned a non-empty service list.
C32_SettlesOnlyAfterServices ==
  [](\A c \in 1..MaxCalls :
       importer.calls[c].createApp \in {"resolved", "rejected"}
         => importer.calls[c].services = "[service]")

\* C32 (amended): createApp polls the services endpoint on a 1-second timer with no
\* maximum retry bound. Once the app is created, its promise resolves only
\* after a poll has returned a value with a truthy length (a non-empty
\* service list, or a non-empty string), and it never rejects: while every
\* poll returns an empty list the timer is armed again, whatever the number
\* of polls, and the promises of createApp and importApp stay pending; when a
\* poll's request fails nothing is scheduled any more and both promises stay
\* pending for ever.
C32_CreateAppPollsForever ==
  /\ [](\A c \in 1..MaxCalls :
          /\ importer.calls[c].createApp = "resolved" => Patchable(c)
          /\ (PollingBegun(c) /\ ~Patchable(c))
               => /\ importer.calls[c].createApp = "pending"
                  /\ importer.calls[c].importApp = "pending"
          /\ importer.calls[c].createApp = "pending"
               => importer.calls[c].importApp = "pending")
  /\ [][\A c \in 1..MaxCalls :
          LET call == importer.calls[c]
              after == importer'.calls[c]
          IN
          /\ (call.at = "polling" /\ after.at = "timer armed")
               => /\ Length(after.services) = "falsy"
                  /\ after.polls = CountPoll(call.polls)
                  /\ after.createApp = "pending"
          /\ (call.at = "polling" /\ after.at = "patching")
               => Length(after.services) = "truthy" /\ after.createApp = "pending"
          /\ (call.at = "polling" /\ after.at = "stopped")
               => /\ after.createApp = "pending"
                  /\ \/ after.services = call.services
                     \/ Length(after.services) = "throws"
                     \/ FirstIdThrows(after.services)
          /\ call.at = "polling"
               => after.at \in {"polling", "timer armed", "patching", "stopped"}
          /\ (call.at = "stopped" /\ call.createApp = "pending")
               => /\ after.at = "stopped"
                  /\ after.createApp = "pending"
                  /\ after.importApp = "pending"
          /\ (PollingBegun(c) /\ call.createApp = "pending")
               => after.createApp /= "rejected"]_vars
C32_Witness ==
  /\ \E c \in 1..MaxCalls :
       /\ importer.calls[c].polls = MaxPolls /\ importer.calls[c].at = "stopped"
       /\ importer.calls[c].services = "[]"
       /\ importer.calls[c].createApp = "pending"
       /\ importer.calls[c].importApp = "pending"
  /\ \E c \in 1..MaxCalls :
       /\ importer.calls[c].polls = MaxPolls /\ importer.calls[c].at = "timer armed"
       /\ importer.calls[c].createApp = "pending"
       /\ importer.calls[c].importApp = "pending"
====
